---- MODULE Spec2Model ----
(***************************************************************************)
(* Verification model of the numerical core of phyeston: the fixed-step    *)
(* ODE solvers (EulerODESolver, RungeKuttaIV), the jelly lattice ODE with  *)
(* its wall collisions, the spinning-top ODE, and the presenters' update   *)
(* loops that drive them.                                                  *)
(*                                                                         *)
(* Numbers.  The program computes in f64.  Here every real is a fixed-     *)
(* point number: the integer n stands for n / SCALE.  Addition and         *)
(* subtraction are exact, a product or quotient is truncated toward zero   *)
(* to a multiple of 1 / SCALE.  Inputs are drawn from sets on which the    *)
(* operations a property depends on are exact.                             *)
(***************************************************************************)
EXTENDS Integers, Sequences, FiniteSets, TLC

VARIABLES
    sut,        \* which solver the run exercises: "euler" or "rk"
    euler,      \* EulerODESolver { delta, ode }; the ODE owns t and y
    eu_init,    \* history: the ODE the Euler solver was built with
    eu_prev,    \* history: the ODE before the last EulerODESolver::step
    eu_n,       \* history: number of EulerODESolver::step calls
    rk,         \* RungeKuttaIV { delta, ode }
    rk_state,   \* the State the caller of RungeKuttaIV::step holds
    rk_init,    \* history: the State the caller started from
    rk_in,      \* history: [solver, state] as they were when the last step was called
    rk_calls,   \* history: the States handed to ode.derivative by the last step
    rk_n,       \* history: number of RungeKuttaIV::step calls
    fn_name,    \* the function of JellyODE under test: "apply_collisions" or "derivative"
    fn_ode,     \* the JellyODE it is called on
    fn_in,      \* the State handed to the function
    fn_out,     \* what the function returned
    fn_done,    \* whether the call has been made
    presenter,  \* which presenter runs: "jelly" or "top"
    sim,        \* the jelly's Simulation, or the SpinningTop
    pc,         \* where the presenter is: "idle", or "loop" inside update
    since,      \* history: [sim, total, steps]: sim as the last UI pass (or the
                \* constructor) left it, the sum of the deltas of the updates since,
                \* and the step_update calls before
    frames,     \* history: number of update calls
    ui_n,       \* history: number of show_side_ui calls
    steps,      \* history: number of step_update calls
    upd_steps,  \* history: number of step_update calls of the last update
    upd_entry,  \* history: [sim, delta] at the entry of the last update
    raw,        \* history: what solver.step returned in the last step_update
    accepted,   \* history: the state the last step_update left
    disrupted,  \* history: whether the button was pressed since the last step_update
    last_step   \* history: [fed, prev_accepted, disrupted, ode, inner] of the last step_update

solver_vars ==
    <<sut, euler, eu_init, eu_prev, eu_n, rk, rk_state, rk_init, rk_in, rk_calls, rk_n>>

fn_vars == <<fn_name, fn_ode, fn_in, fn_out, fn_done>>

presenter_vars ==
    <<presenter, sim, pc, since, frames, ui_n, steps, upd_steps, upd_entry, raw, accepted,
      disrupted, last_step>>

vars == <<solver_vars, fn_vars, presenter_vars>>

\* ------------------------------------------------------------------------
\* Fixed-point arithmetic standing for f64
\* ------------------------------------------------------------------------

\* one unit of the fixed-point representation: 1.0 is SCALE
SCALE == 1000

Abs(a) == IF a < 0 THEN -a ELSE a

Sgn(a) == IF a < 0 THEN -1 ELSE IF a > 0 THEN 1 ELSE 0

\* integer quotient truncated toward zero
TruncDiv(a, b) == Sgn(a) * Sgn(b) * (Abs(a) \div Abs(b))

\* the f64 literals of the solver
Fx(n) == n * SCALE

HALF == SCALE \div 2

\* a * b on fixed-point numbers (both factors are split so that the
\* intermediate values stay small)
Mul(a, b) ==
    LET product(x, y) ==
            (x \div SCALE) * (y \div SCALE) * SCALE + (x \div SCALE) * (y % SCALE)
                + (x % SCALE) * (y \div SCALE) + ((x % SCALE) * (y % SCALE)) \div SCALE
    IN  Sgn(a) * Sgn(b) * product(Abs(a), Abs(b))

\* a / b on fixed-point numbers, b # 0
Div(a, b) ==
    LET quotient(x, y) == (x \div y) * SCALE + ((x % y) * SCALE) \div y
    IN  Sgn(a) * Sgn(b) * quotient(Abs(a), Abs(b))

\* ------------------------------------------------------------------------
\* Vectors (na::SVector<f64, DIM>) as sequences
\* ------------------------------------------------------------------------

VAdd(v, w) == [i \in DOMAIN v |-> v[i] + w[i]]

VMul(v, s) == [i \in DOMAIN v |-> Mul(v[i], s)]

VDiv(v, s) == [i \in DOMAIN v |-> Div(v[i], s)]

\* ode::State { t, y }
State(t, y) == [t |-> t, y |-> y]

\* ------------------------------------------------------------------------
\* ODEs handed to the solvers
\* ------------------------------------------------------------------------

\* FloatFn<F> = Box<dyn Fn(F) -> F>: the functions of time used here are
\* affine, fn = [c0, c1] standing for t -> c0 + c1 * t
FloatFn(fn, t) == fn.c0 + Mul(fn.c1, t)

\* SpringODE: the force terms and the acceleration
SpringODE_equilibrium(ode) == FloatFn(ode.equilibrium, ode.t)

SpringODE_outer_force(ode) == FloatFn(ode.outer_force, ode.t)

SpringODE_damping_force(ode) == Mul(-ode.damping_factor, ode.velocity)

SpringODE_spring_force(ode) ==
    Mul(ode.spring_constant, SpringODE_equilibrium(ode) - ode.position)

SpringODE_total_force(ode) ==
    SpringODE_spring_force(ode) + SpringODE_damping_force(ode)
        + SpringODE_outer_force(ode)

SpringODE_acceleration(ode) == Div(SpringODE_total_force(ode), ode.mass)

\* trait ODE (an ODE that owns its t and y).  Two implementors: SpringODE
\* and a scalar ODE dy/dt = a*t + b*y + c.
ODE_derivative(ode) ==
    IF ode.kind = "spring"
    THEN <<ode.velocity, SpringODE_acceleration(ode)>>
    ELSE <<Mul(ode.a, ode.t) + Mul(ode.b, ode.y[1]) + ode.c>>

ODE_t(ode) == ode.t

ODE_y(ode) ==
    IF ode.kind = "spring" THEN <<ode.position, ode.velocity>> ELSE ode.y

ODE_set_t(ode, t) == [ode EXCEPT !.t = t]

ODE_set_y(ode, y) ==
    IF ode.kind = "spring"
    THEN [ode EXCEPT !.position = y[1], !.velocity = y[2]]
    ELSE [ode EXCEPT !.y = y]

\* ------------------------------------------------------------------------
\* 3-vectors, norms and rotations (nalgebra)
\* ------------------------------------------------------------------------

Add3(a, b) == <<a[1] + b[1], a[2] + b[2], a[3] + b[3]>>

Sub3(a, b) == <<a[1] - b[1], a[2] - b[2], a[3] - b[3]>>

Mul3(a, s) == <<Mul(a[1], s), Mul(a[2], s), Mul(a[3], s)>>

Div3(a, s) == <<Div(a[1], s), Div(a[2], s), Div(a[3], s)>>

Max(a, b) == IF a > b THEN a ELSE b

\* largest r in lo..hi with r * r <= n (lo * lo <= n)
RECURSIVE ISqrtBetween(_, _, _)
ISqrtBetween(n, lo, hi) ==
    IF lo >= hi THEN lo
    ELSE LET mid == (lo + hi + 1) \div 2
         IN  IF mid * mid <= n THEN ISqrtBetween(n, mid, hi)
             ELSE ISqrtBetween(n, lo, mid - 1)

\* f64::sqrt on a sum of squares of fixed-point numbers
ISqrt(n) == ISqrtBetween(n, 0, 46340)

\* largest component magnitude for which the squares are summed directly
NormDirect == 20000

\* norm() of a vector given as a sequence of 3 or 4 numbers; long vectors
\* are measured in a coarser unit f so that the squares stay small
Norm(v) ==
    LET sq(x) == x * x
        last(f) == IF Len(v) = 3 THEN 0 ELSE sq(v[4] \div f)
        in(f) == f * ISqrt(sq(v[1] \div f) + sq(v[2] \div f) + sq(v[3] \div f) + last(f))
        largest(a, b) == Max(Max(Abs(v[1]), Abs(v[2])), Max(a, b))
    IN  in((largest(Abs(v[3]), IF Len(v) = 3 THEN 0 ELSE Abs(v[4])) \div NormDirect) + 1)

\* na::UnitQuaternion::new_normalize on (w, i, j, k), non-zero
Normalize4(q) ==
    LET over(n) == <<Div(q[1], n), Div(q[2], n), Div(q[3], n), Div(q[4], n)>>
    IN  over(Norm(q))

\* rotation matrix (rows) of the unit quaternion (w, i, j, k)
RotationMatrix(q) ==
    LET rows(ww, ii, jj, kk, ij, wk, wj, ik, jk, wi) ==
            << <<ww + ii - jj - kk, ij - wk, wj + ik>>,
               <<wk + ij, ww - ii + jj - kk, jk - wi>>,
               <<ik - wj, wi + jk, ww - ii - jj + kk>> >>
    IN  rows(Mul(q[1], q[1]), Mul(q[2], q[2]), Mul(q[3], q[3]), Mul(q[4], q[4]),
             2 * Mul(q[2], q[3]), 2 * Mul(q[1], q[4]), 2 * Mul(q[1], q[3]),
             2 * Mul(q[2], q[4]), 2 * Mul(q[3], q[4]), 2 * Mul(q[1], q[2]))

Dot3(a, b) == Mul(a[1], b[1]) + Mul(a[2], b[2]) + Mul(a[3], b[3])

\* matrix * vector, the matrix given by its rows
MatVec3(m, v) == <<Dot3(m[1], v), Dot3(m[2], v), Dot3(m[3], v)>>

Cross3(a, b) ==
    <<Mul(a[2], b[3]) - Mul(a[3], b[2]),
      Mul(a[3], b[1]) - Mul(a[1], b[3]),
      Mul(a[1], b[2]) - Mul(a[2], b[1])>>

Transpose3(m) ==
    << <<m[1][1], m[2][1], m[3][1]>>,
       <<m[1][2], m[2][2], m[3][2]>>,
       <<m[1][3], m[2][3], m[3][3]>> >>

\* matrix * scalar and matrix / scalar
MatMul3(m, s) == <<Mul3(m[1], s), Mul3(m[2], s), Mul3(m[3], s)>>

MatDiv3(m, s) == <<Div3(m[1], s), Div3(m[2], s), Div3(m[3], s)>>

\* product of the quaternions p and q, both (w, i, j, k)
QuatMul(p, q) ==
    LET quat(w, v) == <<w, v[1], v[2], v[3]>>
        product(pv, qv) ==
            quat(Mul(p[1], q[1]) - Dot3(pv, qv),
                 Add3(Add3(Mul3(qv, p[1]), Mul3(pv, q[1])), Cross3(pv, qv)))
    IN  product(<<p[2], p[3], p[4]>>, <<q[2], q[3], q[4]>>)

\* UnitQuaternion::transform_vector and inverse().transform_vector
TransformVector(q, v) == MatVec3(RotationMatrix(q), v)

InverseTransformVector(q, v) == MatVec3(Transpose3(RotationMatrix(q)), v)

\* ------------------------------------------------------------------------
\* JellyODE (simulators/jelly.rs)
\* ------------------------------------------------------------------------

POINT_COUNT == 64

SPACE_DIM == POINT_COUNT * 3

ODE_DIM == SPACE_DIM * 2

ROOM_HALF_SIZE == 5000

MAX_COLLISIONS == 100

\* std::f64::consts::SQRT_2
SQRT_2 == 1414

\* ControlFrameTransform::new
ControlFrameTransform_new == [translation |-> <<0, 0, 0>>, rotation |-> <<Fx(1), 0, 0, 0>>]

\* ControlFrameTransform::compose: the homogeneous matrix, kept as its
\* rotation block and its translation column
ControlFrameTransform_compose(frame) ==
    [rotation |-> RotationMatrix(Normalize4(frame.rotation)),
     translation |-> frame.translation]

\* JellyODE::new
JellyODE_new(control_frame) ==
    [kind |-> "jelly",
     point_mass |-> Fx(1),
     point_mass_inverse |-> Fx(1),
     corner_spring_constant |-> Fx(10),
     inner_spring_constant |-> Fx(3),
     elasticity_coefficient |-> SCALE \div 10,
     damping_factor |-> Fx(1),
     control_frame |-> control_frame]

\* JellyODE::set_point_mass
JellyODE_set_point_mass(ode, mass) ==
    [ode EXCEPT !.point_mass = mass, !.point_mass_inverse = Div(Fx(1), mass)]

\* bezier::Cube::new().as_flat(): entry i of the flattened rest cube
Cube_as_flat(i) ==
    LET u == ((i \div 3) \div 4) \div 4
        v == ((i \div 3) \div 4) % 4
        w == (i \div 3) % 4
        c == i % 3
        p == <<u, v, w>>
    IN  Mul(Fx(2), Div(Fx(p[c + 1]), Fx(3))) - Fx(1)

\* JellyODE::default_state
JellyODE_default_state ==
    State(0, [i \in 0..(ODE_DIM - 1) |-> IF i < SPACE_DIM THEN Cube_as_flat(i) ELSE 0])

\* the index of lattice point (u, v, w) in the position half of y
PointIdx(u, v, w) == (w + v * 4 + u * 16) * 3

\* na::point![y[idx], y[idx + 1], y[idx + 2]]
Point3(y, idx) == <<y[idx], y[idx + 1], y[idx + 2]>>

\* spring_force with the difference taken from p_0 to p_1
JellyODE_spring_force_reversed(p_0, p_1, length, spring_constant) ==
    LET force(diff, dist) ==
            IF dist = 0 THEN <<0, 0, 0>>
            ELSE Mul3(Mul3(Div3(diff, dist), spring_constant), dist - length)
    IN  force(Sub3(p_1, p_0), Norm(Sub3(p_1, p_0)))

\* JellyODE::spring_force: the force acting on p_1
JellyODE_spring_force(p_0, p_1, length, spring_constant) ==
    LET force(diff, dist) ==
            IF dist = 0 THEN <<0, 0, 0>>
            ELSE Mul3(Mul3(Div3(diff, dist), spring_constant), dist - length)
    IN  force(Sub3(p_0, p_1), Norm(Sub3(p_0, p_1)))

\* JellyODE::corner_coord with the two sides exchanged
JellyODE_corner_coord_flipped(i) == IF i = 0 THEN Fx(1) ELSE -Fx(1)

JellyODE_corner_coord(i) == IF i = 0 THEN -Fx(1) ELSE Fx(1)

\* JellyODE::corner_point: the transform applied to a vertex of the unit cube
JellyODE_corner_point(transform, u, v, w) ==
    Add3(MatVec3(transform.rotation,
                 <<JellyODE_corner_coord(u), JellyODE_corner_coord(v), JellyODE_corner_coord(w)>>),
         transform.translation)

JellyODE_corner_force(ode, frame_transform, state, u, v, w) ==
    IF (u # 3 /\ u # 0) \/ (v # 3 /\ v # 0) \/ (w # 3 /\ w # 0)
    THEN <<0, 0, 0>>
    ELSE JellyODE_spring_force(JellyODE_corner_point(frame_transform, u, v, w),
                               Point3(state.y, PointIdx(u, v, w)),
                               0, ode.corner_spring_constant)

\* JellyODE::coord_neigh_range that looks forward only
JellyODE_coord_neigh_range_forward(i) == IF i = 3 THEN <<0>> ELSE <<0, 1>>

JellyODE_coord_neigh_range(i) ==
    IF i = 0 THEN <<0, 1>> ELSE IF i = 3 THEN <<-1, 0>> ELSE <<-1, 0, 1>>

\* the (du, dv, dw) the three nested loops of inner_force do not skip, in
\* loop order
JellyODE_inner_offsets(u, v, w) ==
    LET skipped(d) == \/ (d[1] = 0 /\ d[2] = 0 /\ d[3] = 0)
                      \/ (d[1] # 0 /\ d[2] # 0 /\ d[3] # 0)
        all(ru, rv, rw) ==
            [n \in 1..(Len(ru) * Len(rv) * Len(rw)) |->
                <<ru[((n - 1) \div (Len(rv) * Len(rw))) + 1],
                  rv[(((n - 1) \div Len(rw)) % Len(rv)) + 1],
                  rw[((n - 1) % Len(rw)) + 1]>>]
    IN  SelectSeq(all(JellyODE_coord_neigh_range(u), JellyODE_coord_neigh_range(v),
                      JellyODE_coord_neigh_range(w)),
                  LAMBDA d : ~skipped(d))

\* the rest length with the two kinds of spring exchanged
JellyODE_inner_rest_length_swapped(d) ==
    LET s == d[1] + d[2] + d[3]
        diagonal_spring == Abs(s - 2 * TruncDiv(s, 2)) = 0
    IN  Mul(Div(Fx(2), Fx(3)), IF diagonal_spring THEN Fx(1) ELSE SQRT_2)

\* the rest length inner_force gives the spring along offset d
JellyODE_inner_rest_length(d) ==
    LET s == d[1] + d[2] + d[3]
        diagonal_spring == Abs(s - 2 * TruncDiv(s, 2)) = 0
    IN  Mul(Div(Fx(2), Fx(3)), IF diagonal_spring THEN SQRT_2 ELSE Fx(1))

RECURSIVE Sum3(_, _)
\* the sum of the first n vectors of a sequence
Sum3(vs, n) == IF n = 0 THEN <<0, 0, 0>> ELSE Add3(Sum3(vs, n - 1), vs[n])

JellyODE_inner_force(ode, state, u, v, w) ==
    LET forces(ds) ==
            Sum3([n \in 1..Len(ds) |->
                    JellyODE_spring_force(
                        Point3(state.y, PointIdx(u + ds[n][1], v + ds[n][2], w + ds[n][3])),
                        Point3(state.y, PointIdx(u, v, w)),
                        JellyODE_inner_rest_length(ds[n]),
                        ode.inner_spring_constant)],
                 Len(ds))
    IN  forces(JellyODE_inner_offsets(u, v, w))

JellyODE_damping_force(ode, state, u, v, w) ==
    LET velocity == Point3(state.y, PointIdx(u, v, w) + SPACE_DIM)
    IN  Mul3(<<-velocity[1], -velocity[2], -velocity[3]>>, ode.damping_factor)

JellyODE_force(ode, frame_transform, state, u, v, w) ==
    Add3(Add3(JellyODE_corner_force(ode, frame_transform, state, u, v, w),
              JellyODE_inner_force(ode, state, u, v, w)),
         JellyODE_damping_force(ode, state, u, v, w))

\* (0..4).cartesian_product(0..4).cartesian_product(0..4) with the last
\* range outermost
LatticeOrder_reversed == [n \in 1..POINT_COUNT |-> <<(n - 1) % 4, ((n - 1) \div 4) % 4, (n - 1) \div 16>>]

\* (0..4).cartesian_product(0..4).cartesian_product(0..4): the n-th item
\* ((u, v), w) the iterator yields, the rightmost range varying fastest
LatticeOrder == [n \in 1..POINT_COUNT |-> <<(n - 1) \div 16, ((n - 1) \div 4) % 4, (n - 1) % 4>>]

\* JellyODE::accelerations: the flat_map of [force.x, force.y, force.z]
\* over the lattice iterator, collected in order
JellyODE_accelerations(ode, frame_transform, state) ==
    LET force == [n \in 1..POINT_COUNT |->
            Mul3(JellyODE_force(ode, frame_transform, state,
                                LatticeOrder[n][1], LatticeOrder[n][2], LatticeOrder[n][3]),
                 ode.point_mass_inverse)] @@ <<>>
    IN  [i \in 0..(SPACE_DIM - 1) |-> force[(i \div 3) + 1][(i % 3) + 1]]

\* impl PlainODE<ODE_DIM> for JellyODE: the velocities chained with the
\* accelerations
JellyODE_derivative(ode, state) ==
    LET frame_transform == ControlFrameTransform_compose(ode.control_frame)
        acc == JellyODE_accelerations(ode, frame_transform, state)
    IN  [i \in 0..(ODE_DIM - 1) |->
            IF i < SPACE_DIM THEN state.y[i + SPACE_DIM] ELSE acc[i - SPACE_DIM]] @@ <<>>

\* JellyODE::collide_position_coordinate without the velocity sign change
JellyODE_collide_position_coordinate_keep(c, vc) ==
    IF c < -ROOM_HALF_SIZE
    THEN [c |-> -(c + ROOM_HALF_SIZE) - ROOM_HALF_SIZE, vc |-> vc, hit |-> TRUE]
    ELSE IF c > ROOM_HALF_SIZE
    THEN [c |-> -(c - ROOM_HALF_SIZE) + ROOM_HALF_SIZE, vc |-> vc, hit |-> TRUE]
    ELSE [c |-> c, vc |-> vc, hit |-> FALSE]

\* JellyODE::collide_position_coordinate that takes a point on a wall for
\* one beyond it
JellyODE_collide_position_coordinate_on_wall(c, vc) ==
    IF c <= -ROOM_HALF_SIZE
    THEN [c |-> -(c + ROOM_HALF_SIZE) - ROOM_HALF_SIZE, vc |-> -vc, hit |-> TRUE]
    ELSE IF c >= ROOM_HALF_SIZE
    THEN [c |-> -(c - ROOM_HALF_SIZE) + ROOM_HALF_SIZE, vc |-> -vc, hit |-> TRUE]
    ELSE [c |-> c, vc |-> vc, hit |-> FALSE]

\* JellyODE::collide_position_coordinate(&mut c, &mut vc) -> bool
JellyODE_collide_position_coordinate(c, vc) ==
    IF c < -ROOM_HALF_SIZE
    THEN [c |-> -(c + ROOM_HALF_SIZE) - ROOM_HALF_SIZE, vc |-> -vc, hit |-> TRUE]
    ELSE IF c > ROOM_HALF_SIZE
    THEN [c |-> -(c - ROOM_HALF_SIZE) + ROOM_HALF_SIZE, vc |-> -vc, hit |-> TRUE]
    ELSE [c |-> c, vc |-> vc, hit |-> FALSE]

\* JellyODE::collide with the three coordinate checks all made, joined by |
JellyODE_collide_every_axis(ode, position, velocity) ==
    LET x == JellyODE_collide_position_coordinate(position[1], velocity[1])
        y == JellyODE_collide_position_coordinate(position[2], velocity[2])
        z == JellyODE_collide_position_coordinate(position[3], velocity[3])
        collision == x.hit \/ y.hit \/ z.hit
    IN  [position |-> <<x.c, y.c, z.c>>,
         velocity |-> IF collision THEN Mul3(<<x.vc, y.vc, z.vc>>, ode.elasticity_coefficient)
                      ELSE <<x.vc, y.vc, z.vc>>,
         collision |-> collision]

\* JellyODE::collide(&mut position, &mut velocity) -> bool: the three
\* coordinate checks are joined by ||, so the first that hits ends them
JellyODE_collide(ode, position, velocity) ==
    LET x == JellyODE_collide_position_coordinate(position[1], velocity[1])
        y == JellyODE_collide_position_coordinate(position[2], velocity[2])
        z == JellyODE_collide_position_coordinate(position[3], velocity[3])
        p == IF x.hit THEN <<x.c, position[2], position[3]>>
             ELSE IF y.hit THEN <<position[1], y.c, position[3]>>
             ELSE <<position[1], position[2], z.c>>
        v == IF x.hit THEN <<x.vc, velocity[2], velocity[3]>>
             ELSE IF y.hit THEN <<velocity[1], y.vc, velocity[3]>>
             ELSE <<velocity[1], velocity[2], z.vc>>
        collision == x.hit \/ y.hit \/ z.hit
    IN  [position |-> p,
         velocity |-> IF collision THEN Mul3(v, ode.elasticity_coefficient) ELSE v,
         collision |-> collision]

RECURSIVE JellyODE_collide_loop(_, _, _)
\* the inner loop of apply_collisions on one point, pv = [position,
\* velocity], with `left` of its iterations still to run: the loop breaks at
\* the first iteration without a collision.  The iterations are split in
\* halves to keep the evaluation shallow.
JellyODE_collide_loop(ode, pv, left) ==
    LET r == JellyODE_collide(ode, pv.position, pv.velocity)
    IN  IF left = 0 \/ ~r.collision THEN pv
        ELSE IF left = 1 THEN [position |-> r.position, velocity |-> r.velocity]
        ELSE JellyODE_collide_loop(ode,
                JellyODE_collide_loop(ode, pv, left \div 2), left - (left \div 2))

\* the outer loop of apply_collisions: its body for the point at index i
\* reads and writes only the six entries of that point, so the loop is a map
\* over the points; pts[p] is what the body leaves in the entries of point p
JellyODE_collide_points(ode, y) ==
    LET pts == [p \in 0..(POINT_COUNT - 1) |->
                    JellyODE_collide_loop(ode,
                        [position |-> Point3(y, 3 * p),
                         velocity |-> Point3(y, 3 * p + SPACE_DIM)],
                        MAX_COLLISIONS)] @@ <<>>
    IN  [i \in 0..(ODE_DIM - 1) |->
            IF i < SPACE_DIM THEN pts[i \div 3].position[(i % 3) + 1]
            ELSE pts[(i - SPACE_DIM) \div 3].velocity[(i % 3) + 1]] @@ <<>>

\* JellyODE::apply_collisions(&self, state) -> JellyState
JellyODE_apply_collisions(ode, state) ==
    State(state.t, JellyODE_collide_points(ode, state.y))

\* ------------------------------------------------------------------------
\* SpinningTopODE (simulators/spinning_top.rs) and Inertia (physics/inertia.rs)
\* ------------------------------------------------------------------------

\* Matrix3::try_inverse by cofactors.  The matrix is first divided by its
\* largest entry so that the products stay in range; the inverse is kept as
\* [unit, scale], standing for unit / scale.  None on a singular matrix.
Matrix3_try_inverse(m) ==
    LET largest(r) == Max(Abs(r[1]), Max(Abs(r[2]), Abs(r[3])))
        cofactors(n) == << Cross3(n[2], n[3]), Cross3(n[3], n[1]), Cross3(n[1], n[2]) >>
        inverse(big, cof, det) ==
            IF det = 0 THEN [some |-> FALSE]
            ELSE [some |-> TRUE, unit |-> MatDiv3(Transpose3(cof), det), scale |-> big]
        scaled(big, n) == inverse(big, cofactors(n), Dot3(n[1], cofactors(n)[1]))
        divided(big) == IF big = 0 THEN [some |-> FALSE] ELSE scaled(big, MatDiv3(m, big))
    IN  divided(Max(largest(m[1]), Max(largest(m[2]), largest(m[3]))))

\* Inertia::new that takes any matrix
Inertia_new_unchecked(matrix) ==
    LET made(inv) == [matrix |-> matrix, inverse |-> inv, panicked |-> FALSE]
    IN  made(Matrix3_try_inverse(matrix))

\* Inertia::new: panics when the matrix has no inverse
Inertia_new(matrix) ==
    LET made(inv) == [matrix |-> matrix, inverse |-> inv, panicked |-> ~inv.some]
    IN  made(Matrix3_try_inverse(matrix))

\* the torque taken for the angular acceleration, the inverse left out
Inertia_inverse_left_out(inertia, v) == v

\* self.inertia.inverse_matrix() * v
Inertia_inverse_matrix_times(inertia, v) ==
    MatVec3(inertia.inverse.unit, Div3(v, inertia.inverse.scale))

\* f64::powi
RECURSIVE Powi(_, _)
Powi(x, n) == IF n = 0 THEN Fx(1) ELSE Mul(Powi(x, n - 1), x)

\* SpinningTopODE::calc_inertia
SpinningTopODE_calc_inertia(ode) ==
    LET d == Div(Fx(2), Fx(3))
        o == -(SCALE \div 4)
    IN  [ode EXCEPT !.inertia =
            Inertia_new(MatMul3(<< <<d, o, o>>, <<o, d, o>>, <<o, o, d>> >>,
                                Mul(ode.density, Powi(ode.side_length, 5))))]

\* SpinningTopODE::new
SpinningTopODE_new(density, side_length) ==
    SpinningTopODE_calc_inertia(
        [kind |-> "top",
         inertia |-> Inertia_new(<< <<Fx(1), 0, 0>>, <<0, Fx(1), 0>>, <<0, 0, Fx(1)>> >>),
         gravity |-> <<0, -Fx(100), 0>>,
         enable_gravity |-> TRUE,
         density |-> density,
         side_length |-> side_length])

\* set_density that keeps the inertia it had
SpinningTopODE_set_density_stale(ode, density) ==
    [ode EXCEPT !.density = density]

\* SpinningTopODE::set_side_length, set_density
SpinningTopODE_set_side_length(ode, side_length) ==
    SpinningTopODE_calc_inertia([ode EXCEPT !.side_length = side_length])

SpinningTopODE_set_density(ode, density) ==
    SpinningTopODE_calc_inertia([ode EXCEPT !.density = density])

\* SpinningTopODE::gravity without the switch
SpinningTopODE_gravity_always(ode) == ode.gravity

\* SpinningTopODE::gravity, mass, weight
SpinningTopODE_gravity(ode) == IF ode.enable_gravity THEN ode.gravity ELSE <<0, 0, 0>>

SpinningTopODE_mass(ode) == Mul(ode.density, Powi(ode.side_length, 3))

SpinningTopODE_weight(ode) == Mul3(SpinningTopODE_gravity(ode), SpinningTopODE_mass(ode))

\* SpinningTopODE::torque(rotation), in the frame of the body
SpinningTopODE_torque(ode, rotation) ==
    LET c == Mul(HALF, ode.side_length)
        natural_center == <<c, c, c>>
    IN  InverseTransformVector(rotation,
            Cross3(TransformVector(rotation, natural_center), SpinningTopODE_weight(ode)))

\* impl PlainODE<7> for SpinningTopODE: y = (angular velocity, rotation as
\* (w, i, j, k)), indexed from 0
SpinningTopODE_derivative(ode, state) ==
    LET y == state.y
        halved(r) == <<Mul(r[1], HALF), Mul(r[2], HALF), Mul(r[3], HALF), Mul(r[4], HALF)>>
        vector(angular_velocity_derivative, rotation_derivative) ==
            [i \in 0..6 |-> IF i < 3 THEN angular_velocity_derivative[i + 1]
                            ELSE rotation_derivative[i - 2]] @@ <<>>
        derivative(angular_velocity, rotation) ==
            vector(Inertia_inverse_matrix_times(ode.inertia,
                        Add3(SpinningTopODE_torque(ode, rotation),
                             Cross3(MatVec3(ode.inertia.matrix, angular_velocity),
                                    angular_velocity))),
                   halved(QuatMul(rotation, <<0, y[0], y[1], y[2]>>)))
    IN  derivative(<<y[0], y[1], y[2]>>, Normalize4(<<y[3], y[4], y[5], y[6]>>))

\* trait PlainODE: derivative(&self, state), dispatched on the implementor
PlainODE_derivative(ode, state) ==
    CASE ode.kind = "jelly" -> JellyODE_derivative(ode, state)
      [] ode.kind = "top" -> SpinningTopODE_derivative(ode, state)
      [] OTHER -> <<Mul(ode.a, state.t) + Mul(ode.b, state.y[1]) + ode.c>>

\* ------------------------------------------------------------------------
\* Solvers
\* ------------------------------------------------------------------------

\* EulerODESolver::step with the time written back before the derivative is
\* taken
EulerODESolver_step_early_t(solver) ==
    LET ode1 == ODE_set_t(solver.ode, ODE_t(solver.ode) + solver.delta)
        new_y == VAdd(ODE_y(solver.ode), VMul(ODE_derivative(ode1), solver.delta))
    IN  [solver EXCEPT !.ode = ODE_set_y(ode1, new_y)]

\* EulerODESolver::step(&mut self): the solver after the step
EulerODESolver_step(solver) ==
    LET new_y == VAdd(ODE_y(solver.ode), VMul(ODE_derivative(solver.ode), solver.delta))
        new_t == ODE_t(solver.ode) + solver.delta
    IN  [solver EXCEPT !.ode = ODE_set_y(ODE_set_t(solver.ode, new_t), new_y)]

\* the one element of a singleton set.  { e(x) : x \in {v} } is used to
\* give the value of v a name in e: the value is computed once.
Only(S) == CHOOSE x \in S : TRUE

\* RungeKuttaIV::step with the second and third stage taken a whole step
\* along k
RungeKuttaIV_half_whole(solver, state, k) ==
    State(state.t + Mul(solver.delta, HALF), VAdd(state.y, VMul(k, solver.delta)))

\* RungeKuttaIV::step: State { t: t + h * 0.5, y: y + k * h * 0.5 }, which
\* k2 and k3 are taken at
RungeKuttaIV_half(solver, state, k) ==
    State(state.t + Mul(solver.delta, HALF),
          VAdd(state.y, VMul(VMul(k, solver.delta), HALF)))

\* RungeKuttaIV::step: State { t: t + h * 0.5, y: y + k3 * h }, which k4 is
\* taken at
RungeKuttaIV_last(solver, state, k3) ==
    State(state.t + Mul(solver.delta, HALF), VAdd(state.y, VMul(k3, solver.delta)))

\* the State RungeKuttaIV::step returns, with k2 weighted once in the sum
RungeKuttaIV_sum_weight(solver, state, k1, k2, k3, k4) ==
    State(state.t + solver.delta,
          VAdd(state.y,
               VDiv(VMul(VAdd(VAdd(VAdd(k1, k2), VMul(k3, Fx(2))), k4),
                         solver.delta),
                    Fx(6))))

\* RungeKuttaIV::step: the State it returns,
\* State { t: t + h, y: y + (k1 + k2 * 2.0 + k3 * 2.0 + k4) * h / 6.0 }
RungeKuttaIV_sum(solver, state, k1, k2, k3, k4) ==
    State(state.t + solver.delta,
          VAdd(state.y,
               VDiv(VMul(VAdd(VAdd(VAdd(k1, VMul(k2, Fx(2))), VMul(k3, Fx(2))), k4),
                         solver.delta),
                    Fx(6))))

\* RungeKuttaIV::step(&self, state): the states handed to ode.derivative,
\* in call order, and the state returned
RungeKuttaIV_stages(solver, state) ==
    Only({ Only({ Only({ Only({
        [calls |-> <<state,
                     RungeKuttaIV_half(solver, state, k1),
                     RungeKuttaIV_half(solver, state, k2),
                     RungeKuttaIV_last(solver, state, k3)>>,
         out |-> RungeKuttaIV_sum(solver, state, k1, k2, k3, k4)]
        : k4 \in {PlainODE_derivative(solver.ode, RungeKuttaIV_last(solver, state, k3))} })
        : k3 \in {PlainODE_derivative(solver.ode, RungeKuttaIV_half(solver, state, k2))} })
        : k2 \in {PlainODE_derivative(solver.ode, RungeKuttaIV_half(solver, state, k1))} })
        : k1 \in {PlainODE_derivative(solver.ode, state)} })

\* RungeKuttaIV::step(&self, state) -> State
RungeKuttaIV_step(solver, state) == RungeKuttaIV_stages(solver, state).out

\* ------------------------------------------------------------------------
\* Presenters: the jelly's Simulation (presenters/jelly.rs) and SpinningTop
\* (presenters/spinning_top.rs)
\* ------------------------------------------------------------------------

\* DragValue::clamp_range(lo..=hi) and clamp_range(lo..=f64::MAX)
Clamp(v, lo, hi) == IF v < lo THEN lo ELSE IF v > hi THEN hi ELSE v

ClampFrom(v, lo) == IF v < lo THEN lo ELSE v

\* Duration::as_secs_f64 of a Duration of ms milliseconds
Duration_as_secs_f64(ms) == (ms * SCALE) \div 1000

\* Simulation::new
Simulation_new(control_frame_transform) ==
    [state |-> JellyODE_default_state,
     solver |-> [delta |-> SCALE \div 100, ode |-> JellyODE_new(control_frame_transform)],
     disruption_strength |-> Fx(1),
     simulation_speed |-> Fx(1),
     exact_t |-> 0]

\* Simulation::update with the accumulator restarted from the simulated time
Simulation_update_elapse_restart(me, delta) ==
    [me EXCEPT !.exact_t =
        me.state.t + Mul(Duration_as_secs_f64(delta), me.simulation_speed)]

\* Simulation::update, up to its loop: exact_t += elapsed_t
Simulation_update_elapse(me, delta) ==
    [me EXCEPT !.exact_t = @ + Mul(Duration_as_secs_f64(delta), me.simulation_speed)]

\* Simulation::update with a loop that also runs on equality
Simulation_update_loops_on_equal(me) == me.exact_t >= me.state.t

\* Simulation::update: the condition of its while loop
Simulation_update_loops(me) == me.exact_t > me.state.t

\* Simulation::step_update that takes the output of the solver as it is
Simulation_accept_raw(me, stepped) == [me EXCEPT !.state = stepped]

\* Simulation::step_update from the return of self.solver.step(&self.state)
\* on (the copy of the positions into the Bezier cube that is drawn is left
\* out)
Simulation_accept(me, stepped) ==
    [me EXCEPT !.state = JellyODE_apply_collisions(me.solver.ode, stepped)]

\* Simulation::step_update
Simulation_step_update(me) ==
    Simulation_accept(me, RungeKuttaIV_step(me.solver, me.state))

RECURSIVE Simulation_update_loop(_)
\* Simulation::update: its while loop
Simulation_update_loop(me) ==
    IF Simulation_update_loops(me)
    THEN Simulation_update_loop(Simulation_step_update(me))
    ELSE me

\* Simulation::update(delta)
Simulation_update(me, delta) ==
    Simulation_update_loop(Simulation_update_elapse(me, delta))

\* Simulation::apply_random_disruption without its skip(SPACE_DIM)
Simulation_apply_random_disruption_all(me, rnd) ==
    [me EXCEPT !.state.y =
        [i \in 0..(ODE_DIM - 1) |->
            me.state.y[i] + Mul(Mul(rnd[i], Fx(2)) - Fx(1), me.disruption_strength)] @@ <<>>]

\* Simulation::apply_random_disruption; rnd[i] is what rng.gen::<f64>()
\* returns for entry i of y, a number in [0, 1)
Simulation_apply_random_disruption(me, rnd) ==
    [me EXCEPT !.state.y =
        [i \in 0..(ODE_DIM - 1) |->
            IF i < SPACE_DIM THEN me.state.y[i]
            ELSE me.state.y[i]
                    + Mul(Mul(rnd[i], Fx(2)) - Fx(1), me.disruption_strength)] @@ <<>>]

\* ControlFrame::ui: the translation and the rotation coordinates dragged
\* to the values in `input`
ControlFrame_ui(frame, input) ==
    [frame EXCEPT
        !.translation = <<Clamp(input.translation[1], -Fx(10), Fx(10)),
                          Clamp(input.translation[2], -Fx(10), Fx(10)),
                          Clamp(input.translation[3], -Fx(10), Fx(10))>>,
        !.rotation = <<Clamp(input.rotation[1], -Fx(1), Fx(1)),
                       Clamp(input.rotation[2], -Fx(1), Fx(1)),
                       Clamp(input.rotation[3], -Fx(1), Fx(1)),
                       Clamp(input.rotation[4], -Fx(1), Fx(1))>>]

\* Simulation::ui: every DragValue dragged to the value in `input`, the
\* button pressed when input.clicked
Simulation_ui(me, input) ==
    LET dragged(s) ==
            [s EXCEPT !.simulation_speed = ClampFrom(input.simulation_speed, 0),
                      !.solver.delta = ClampFrom(input.delta, SCALE \div 1000),
                      !.disruption_strength = ClampFrom(input.disruption_strength, 0)]
        button(s) ==
            IF input.clicked THEN Simulation_apply_random_disruption(s, input.rnd) ELSE s
        point_mass(s, mass) ==
            IF mass # s.solver.ode.point_mass
            THEN [s EXCEPT !.solver.ode = JellyODE_set_point_mass(@, mass)]
            ELSE s
        rest(s) ==
            [s EXCEPT
                !.solver.ode.elasticity_coefficient =
                    Clamp(input.elasticity_coefficient, 0, Fx(1)),
                !.solver.ode.inner_spring_constant =
                    Clamp(input.inner_spring_constant, 0, Fx(100)),
                !.solver.ode.corner_spring_constant =
                    Clamp(input.corner_spring_constant, 0, Fx(100)),
                !.solver.ode.damping_factor = Clamp(input.damping_factor, 0, Fx(100))]
    IN  rest(point_mass(button(dragged(me)), Clamp(input.point_mass, SCALE \div 100, Fx(100))))

\* Jelly::show_side_ui: the control frame's widgets, then the simulation's
\* (the widgets of what is drawn are left out)
Jelly_show_side_ui(me, input) ==
    Simulation_ui([me EXCEPT !.solver.ode.control_frame = ControlFrame_ui(@, input)], input)

\* SpinningTop::new (the fields of what is drawn are left out)
SpinningTop_new(rotation, angular_velocity) ==
    [state |-> State(0, [i \in 0..6 |-> IF i < 3 THEN angular_velocity[i + 1]
                                        ELSE rotation[i - 2]] @@ <<>>),
     solver |-> [delta |-> SCALE \div 100, ode |-> SpinningTopODE_new(Fx(10), Fx(2))],
     simulation_speed |-> Fx(1),
     exact_t |-> 0]

\* SpinningTop::update, up to its loop
SpinningTop_update_elapse(top, delta) ==
    [top EXCEPT !.exact_t = @ + Mul(Duration_as_secs_f64(delta), top.simulation_speed)]

\* SpinningTop::update: the condition of its while loop
SpinningTop_update_loops(top) == top.exact_t > top.state.t

\* step_update keeping the rotation as the solver returned it
SpinningTop_accept_raw(top, new_state) ==
    [top EXCEPT !.state = new_state]

\* SpinningTop::step_update from the return of self.solver.step(&self.state)
\* on (the trajectory vertex pushed for drawing is left out)
SpinningTop_accept(top, new_state) ==
    LET new_rotation == Normalize4(<<new_state.y[3], new_state.y[4],
                                     new_state.y[5], new_state.y[6]>>)
    IN  [top EXCEPT !.state =
            State(new_state.t,
                  [new_state.y EXCEPT ![3] = new_rotation[1], ![4] = new_rotation[2],
                                      ![5] = new_rotation[3], ![6] = new_rotation[4]])]

\* SpinningTop::step_update
SpinningTop_step_update(top) ==
    SpinningTop_accept(top, RungeKuttaIV_step(top.solver, top.state))

RECURSIVE SpinningTop_update_loop(_)
\* SpinningTop::update: its while loop
SpinningTop_update_loop(top) ==
    IF SpinningTop_update_loops(top)
    THEN SpinningTop_update_loop(SpinningTop_step_update(top))
    ELSE top

\* SpinningTop::update(delta)
SpinningTop_update(top, delta) ==
    SpinningTop_update_loop(SpinningTop_update_elapse(top, delta))

\* SpinningTop::show_side_ui: the checkbox and every DragValue set to the
\* value in `input` (the widgets of what is drawn are left out)
SpinningTop_show_side_ui(top, input) ==
    LET gravity(t) ==
            [t EXCEPT !.solver.ode.enable_gravity = input.enable_gravity,
                      !.solver.ode.gravity[2] = IF input.gravity_y > 0 THEN 0 ELSE input.gravity_y]
        density(t, dragged) ==
            IF dragged # t.solver.ode.density
            THEN [t EXCEPT !.solver.ode = SpinningTopODE_set_density(@, dragged)]
            ELSE t
        side_length(t, dragged) ==
            IF dragged # t.solver.ode.side_length
            THEN [t EXCEPT !.solver.ode = SpinningTopODE_set_side_length(@, dragged)]
            ELSE t
        rest(t) ==
            [t EXCEPT !.simulation_speed = ClampFrom(input.simulation_speed, 0),
                      !.solver.delta = ClampFrom(input.delta, SCALE \div 1000)]
    IN  rest(side_length(density(gravity(top), ClampFrom(input.density, SCALE \div 10)),
                         ClampFrom(input.side_length, SCALE \div 10)))

\* ------------------------------------------------------------------------
\* numerics/rotations.rs: Quaternion.  A quaternion is [nan, c]: c holds
\* (w, x, y, z), and nan tells that the components are NaN (c is then
\* not looked at); of the f64 values only NaN is kept apart, the operands
\* being far from overflow
\* ------------------------------------------------------------------------

\* std::f64::consts::FRAC_PI_2
FRAC_PI_2 == 1571

\* 10.0 * f64::EPSILON, the smallest step the arithmetic here has
TEN_EPSILON == 1

Quat(c) == [nan |-> FALSE, c |-> c]

\* the result of 0.0 / 0.0 in every component, or of arithmetic on NaN
QuatNaN == [nan |-> TRUE, c |-> <<0, 0, 0, 0>>]

\* f64::sin for -PI <= x <= PI, by its series about 0 on [0, PI/2]
Sin(x) ==
    LET sum(a, t3, t5, t7, t9) == a - t3 + t5 - t7 + t9
        fifth(a, a2, t3, t5) ==
            sum(a, t3, t5, Mul(t5, a2) \div 42, Mul(Mul(t5, a2) \div 42, a2) \div 72)
        third(a, a2, t3) == fifth(a, a2, t3, Mul(t3, a2) \div 20)
        series(a, a2) == third(a, a2, Mul(a, a2) \div 6)
        folded(a) == series(a, Mul(a, a))
    IN  Sgn(x) * folded(IF Abs(x) > FRAC_PI_2 THEN 2 * FRAC_PI_2 - Abs(x) ELSE Abs(x))

\* f64::cos for -PI/2 <= x <= 3 PI/2
Cos(x) == Sin(FRAC_PI_2 - x)

RECURSIVE AcosBetween(_, _, _)
\* the angle in lo..hi whose cosine is the first not above d
AcosBetween(d, lo, hi) ==
    IF lo >= hi THEN lo
    ELSE LET mid == (lo + hi) \div 2
         IN  IF Cos(mid) <= d THEN AcosBetween(d, lo, mid) ELSE AcosBetween(d, mid + 1, hi)

\* f64::acos for -1 <= d <= 1: exact at the ends
Acos(d) ==
    IF d >= SCALE THEN 0
    ELSE IF d <= -SCALE THEN 2 * FRAC_PI_2
    ELSE AcosBetween(d, 0, 2 * FRAC_PI_2)

\* Quaternion::is_zero: every component == 0.0, which no NaN is
Quaternion_is_zero(q) == ~q.nan /\ \A i \in 1..4 : q.c[i] = 0

\* Quaternion::normalize: self.0 / self.0.norm(), NaN for the zero vector;
\* the division keeps its relative precision however short the vector is,
\* which the components taken over the largest of them do here
Quaternion_normalize(q) ==
    LET largest(c) == Max(Max(Abs(c[1]), Abs(c[2])), Max(Abs(c[3]), Abs(c[4])))
        over(c, big) == <<Div(c[1], big), Div(c[2], big), Div(c[3], big), Div(c[4], big)>>
    IN  IF q.nan \/ Quaternion_is_zero(q) THEN QuatNaN
        ELSE Quat(Normalize4(over(q.c, largest(q.c))))

\* impl Neg for Quaternion
Quaternion_neg(q) == [q EXCEPT !.c = <<-q.c[1], -q.c[2], -q.c[3], -q.c[4]>>]

\* self.0 * a + other.0 * b, held SCALE times as large so that no product
\* is cut short: a sum of f64 products is zero only if it is zero, and
\* neither is_zero nor normalize sees the factor
Quaternion_combine(self, a, other, b) ==
    IF self.nan \/ other.nan THEN QuatNaN
    ELSE Quat([i \in 1..4 |-> self.c[i] * a + other.c[i] * b])

RECURSIVE Quaternion_lerp_upward(_, _, _)
\* Quaternion::lerp that nudges t upward at t = 1 as well
Quaternion_lerp_upward(self, other, t) ==
    IF Quaternion_is_zero(other) /\ Quaternion_is_zero(self) THEN Quat(<<Fx(1), 0, 0, 0>>)
    ELSE LET new == Quaternion_combine(self, Fx(1) - t, other, t)
         IN  IF Quaternion_is_zero(new)
             THEN Quaternion_lerp_upward(self, other, t + TEN_EPSILON)
             ELSE Quaternion_normalize(new)

RECURSIVE Quaternion_lerp(_, _, _)
\* Quaternion::lerp
Quaternion_lerp(self, other, t) ==
    IF Quaternion_is_zero(other) /\ Quaternion_is_zero(self) THEN Quat(<<Fx(1), 0, 0, 0>>)
    ELSE LET new == Quaternion_combine(self, Fx(1) - t, other, t)
         IN  IF Quaternion_is_zero(new)
             THEN Quaternion_lerp(self, other,
                                  t + (IF t = Fx(1) THEN -1 ELSE 1) * TEN_EPSILON)
             ELSE Quaternion_normalize(new)

\* Quaternion::slerp
Quaternion_slerp(self, other, t) ==
    LET weighted(o, omega) ==
            IF Abs(Sin(omega)) <= TEN_EPSILON THEN Quaternion_lerp(self, o, t)
            ELSE Quaternion_normalize(
                    [nan |-> FALSE,
                     c |-> [i \in 1..4 |->
                              Div(Mul(Sin(Mul(Fx(1) - t, omega)), self.c[i])
                                    + Mul(Sin(Mul(t, omega)), o.c[i]),
                                  Sin(omega))]])
        clamped(dot) == weighted(IF dot < 0 THEN Quaternion_neg(other) ELSE other, Acos(dot))
    IN  IF self.nan \/ other.nan THEN QuatNaN
        ELSE clamped(Clamp(Mul(self.c[1], other.c[1]) + Mul(self.c[2], other.c[2])
                             + Mul(self.c[3], other.c[3]) + Mul(self.c[4], other.c[4]),
                           -Fx(1), Fx(1)))

\* ------------------------------------------------------------------------
\* Specification SpecSolver: a solver stepped by its caller
\* ------------------------------------------------------------------------

\* steps a RungeKuttaIV run takes
MaxRKSteps == 2

\* steps an EulerODESolver run takes
MaxEulerSteps == 100

\* the scalar ODEs dy/dt = a*t + b*y + c that are integrated
AffineCoefficients ==
    { [a |-> 0,      b |-> 0,      c |-> Fx(1)],
      [a |-> 0,      b |-> 0,      c |-> -Fx(2)],
      [a |-> Fx(1),  b |-> 0,      c |-> 0],
      [a |-> Fx(2),  b |-> 0,      c |-> Fx(1)],
      [a |-> 0,      b |-> -Fx(1), c |-> 0],
      [a |-> Fx(1),  b |-> -Fx(1), c |-> Fx(3)] }

RKDeltas == {Fx(2), Fx(6)}

RKInitialStates == {State(t, <<y>>) : t \in {0, Fx(1)}, y \in {0, Fx(1), -Fx(3)}}

PlainODEs == {[kind |-> "affine", a |-> k.a, b |-> k.b, c |-> k.c] : k \in AffineCoefficients}

EulerDeltas == {10, 100}

\* ODE objects owning their t and y
AffineODEs ==
    {[kind |-> "affine", t |-> 0, y |-> <<y>>, a |-> k.a, b |-> k.b, c |-> k.c] :
        k \in AffineCoefficients, y \in {0, Fx(1)}}

FloatFns == {[c0 |-> 0, c1 |-> 0], [c0 |-> Fx(1), c1 |-> Fx(2)]}

\* SpringODE::new(mass, equilibrium, position, velocity, spring_constant,
\* damping_factor, outer_force), t = 0
SpringODEs ==
    {[kind |-> "spring", t |-> 0, mass |-> Fx(1), equilibrium |-> e,
      position |-> p, velocity |-> 0, spring_constant |-> Fx(5),
      damping_factor |-> d, outer_force |-> f] :
        e \in FloatFns, f \in FloatFns, p \in {0, Fx(1)}, d \in {0, HALF}}

NoState == State(0, <<0>>)

NoSolver == [delta |-> 0, ode |-> [kind |-> "none"]]

\* no solver under test
SolverIdle ==
    /\ sut = "none"
    /\ euler = NoSolver /\ eu_init = NoSolver.ode /\ eu_prev = NoSolver.ode /\ eu_n = 0
    /\ rk = NoSolver /\ rk_state = NoState /\ rk_init = NoState
    /\ rk_in = [solver |-> NoSolver, state |-> NoState]
    /\ rk_calls = <<>> /\ rk_n = 0

\* no function under test
FnIdle ==
    /\ fn_name = "none"
    /\ fn_ode = NoSolver.ode /\ fn_in = NoState /\ fn_out = NoState /\ fn_done = FALSE

NoSimulation == [state |-> NoState, solver |-> NoSolver, simulation_speed |-> 0, exact_t |-> 0]

\* what the history holds when sim has just been constructed
Constructed(s) ==
    /\ sim = s
    /\ pc = "idle"
    /\ since = [sim |-> s, total |-> 0, steps |-> 0]
    /\ frames = 0 /\ ui_n = 0 /\ steps = 0 /\ upd_steps = 0
    /\ upd_entry = [sim |-> s, delta |-> 0]
    /\ raw = s.state
    /\ accepted = s.state
    /\ disrupted = FALSE
    /\ last_step = [fed |-> s.state, prev_accepted |-> s.state, disrupted |-> FALSE,
                    ode |-> s.solver.ode, inner |-> FALSE]

\* no presenter runs
PresenterIdle == presenter = "none" /\ Constructed(NoSimulation)

InitSolver ==
    /\ FnIdle
    /\ PresenterIdle
    /\ sut \in {"euler", "rk"}
    /\ IF sut = "euler"
       THEN /\ euler \in [delta : EulerDeltas, ode : AffineODEs \cup SpringODEs]
            /\ rk = NoSolver
            /\ rk_state = NoState
       ELSE /\ euler = NoSolver
            /\ rk \in [delta : RKDeltas, ode : PlainODEs]
            /\ rk_state \in RKInitialStates
    /\ eu_init = euler.ode
    /\ eu_prev = euler.ode
    /\ eu_n = 0
    /\ rk_init = rk_state
    /\ rk_in = [solver |-> rk, state |-> rk_state]
    /\ rk_calls = <<>>
    /\ rk_n = 0

\* the presenter calls self.euler.step()
EulerStep ==
    /\ sut = "euler"
    /\ eu_n < MaxEulerSteps
    /\ euler' = EulerODESolver_step(euler)
    /\ eu_prev' = euler.ode
    /\ eu_n' = eu_n + 1
    /\ UNCHANGED <<sut, eu_init, rk, rk_state, rk_init, rk_in, rk_calls, rk_n, fn_vars, presenter_vars>>

\* the caller replaces its state by solver.step(&state)
RKStep ==
    /\ sut = "rk"
    /\ rk_n < MaxRKSteps
    /\ \E r \in {RungeKuttaIV_stages(rk, rk_state)} :
            rk_state' = r.out /\ rk_calls' = r.calls
    /\ rk_in' = [solver |-> rk, state |-> rk_state]
    /\ rk_n' = rk_n + 1
    /\ UNCHANGED <<sut, euler, eu_init, eu_prev, eu_n, rk, rk_init, fn_vars, presenter_vars>>

NextSolver == EulerStep \/ RKStep

SpecSolver == InitSolver /\ [][NextSolver]_vars

\* ------------------------------------------------------------------------
\* Specification SpecCollide: JellyODE::apply_collisions called on a state
\* ------------------------------------------------------------------------

\* coordinates a lattice point is placed at: inside the room, on a wall,
\* and beyond a wall by less and by more than the width of the room
CollideCoords == {0, 5000, 5001, -5001, -7500, 14999, 16000, -1205000}

CollideVelocities == {<<0, 0, 0>>, <<Fx(10), 0, 0>>, <<-Fx(3), Fx(4), 5500>>}

\* first indices of the lattice points that are moved
CollidePoints == {0, 63, 189}

Elasticities == {0, SCALE \div 10, Fx(1)}

\* state with the point at index i put at position p with velocity v
WithPoint(state, i, p, v) ==
    State(state.t,
          [state.y EXCEPT ![i] = p[1], ![i + 1] = p[2], ![i + 2] = p[3],
                          ![i + SPACE_DIM] = v[1], ![i + SPACE_DIM + 1] = v[2],
                          ![i + SPACE_DIM + 2] = v[3]])

\* the other points: all at rest on the lattice, or one more of them
\* beyond two walls and moving
CollideOthers ==
    {JellyODE_default_state,
     WithPoint(JellyODE_default_state, 96, <<-7500, 0, 16000>>, <<Fx(1), Fx(1), -Fx(2)>>)}

InitCollide ==
    /\ SolverIdle
    /\ PresenterIdle
    /\ fn_name = "apply_collisions"
    /\ \E e \in Elasticities :
         fn_ode = [JellyODE_new(ControlFrameTransform_new) EXCEPT !.elasticity_coefficient = e]
    /\ \E i \in CollidePoints, x \in CollideCoords, y \in CollideCoords,
          z \in {0, -5001, 16000}, v \in CollideVelocities, others \in CollideOthers :
         fn_in = WithPoint(others, i, <<x, y, z>>, v)
    /\ fn_out = fn_in
    /\ fn_done = FALSE

\* self.solver.ode().apply_collisions(state)
ApplyCollisions ==
    /\ fn_name = "apply_collisions"
    /\ ~fn_done
    /\ fn_out' = JellyODE_apply_collisions(fn_ode, fn_in)
    /\ fn_done' = TRUE
    /\ UNCHANGED <<fn_name, fn_ode, fn_in, solver_vars, presenter_vars>>

NextCollide == ApplyCollisions

SpecCollide == InitCollide /\ [][NextCollide]_vars

\* ------------------------------------------------------------------------
\* Specification SpecDerivative: JellyODE::derivative called on a state
\* ------------------------------------------------------------------------

\* point masses, each with an inverse that is exact
PointMasses == {HALF, Fx(1), Fx(2), Fx(4)}

\* the control frame as built, moved and turned by half a turn about x, and
\* moved with a rotation the user typed in that is not normalised
ControlFrames ==
    {ControlFrameTransform_new,
     [translation |-> <<Fx(1), 0, -Fx(2)>>, rotation |-> <<0, Fx(1), 0, 0>>],
     [translation |-> <<0, Fx(1), 0>>, rotation |-> <<0, 0, Fx(3), Fx(4)>>]}

\* where the moved lattice point is put, and its velocity
DerivativePositions == {<<0, 0, 0>>, <<-Fx(1), Fx(2), HALF>>, <<Fx(3), -250, Fx(1)>>}

DerivativeVelocities == {<<0, 0, 0>>, <<-Fx(3), Fx(4), 5500>>}

InitDerivative ==
    /\ SolverIdle
    /\ PresenterIdle
    /\ fn_name = "derivative"
    /\ \E mass \in PointMasses, frame \in ControlFrames :
         fn_ode = JellyODE_set_point_mass(JellyODE_new(frame), mass)
    /\ \E i \in CollidePoints, p \in DerivativePositions, v \in DerivativeVelocities :
         fn_in = WithPoint(JellyODE_default_state, i, p, v)
    /\ fn_out = <<>>
    /\ fn_done = FALSE

\* self.ode.derivative(state)
Derivative ==
    /\ fn_name = "derivative"
    /\ ~fn_done
    /\ fn_out' = JellyODE_derivative(fn_ode, fn_in)
    /\ fn_done' = TRUE
    /\ UNCHANGED <<fn_name, fn_ode, fn_in, solver_vars, presenter_vars>>

NextDerivative == Derivative

SpecDerivative == InitDerivative /\ [][NextDerivative]_vars

\* ------------------------------------------------------------------------
\* Specification SpecTop: a SpinningTopODE that is constructed, has its
\* density, side length and gravity switch set, and is asked for derivatives
\* ------------------------------------------------------------------------

\* densities and side lengths handed to new, set_density, set_side_length
TopDensities == {0, Fx(1), Fx(5), Fx(10)}

TopSideLengths == {0, Fx(1), Fx(2)}

\* the states derivative is called on: an angular velocity and a rotation
\* (w, i, j, k), of unit norm as the presenter stores it or not of unit norm
\* as the solver forms it for its later stages
TopStates ==
    {State(0, [i \in 0..6 |-> IF i < 3 THEN av[i + 1] ELSE q[i - 2]]) :
        av \in {<<0, 0, 0>>, <<Fx(1), 0, 0>>, <<Fx(1), -Fx(2), HALF>>},
        q \in {<<Fx(1), 0, 0, 0>>, <<600, 800, 0, 0>>, <<Fx(2), 0, 0, 0>>, <<0, 0, Fx(3), Fx(4)>>}}

\* SpinningTopODE::new(density, side_length); a panic in Inertia::new ends
\* the program, which the record of the inertia remembers
InitTop ==
    /\ SolverIdle
    /\ PresenterIdle
    /\ fn_name = "top"
    /\ \E density \in TopDensities, side_length \in TopSideLengths :
         fn_ode = SpinningTopODE_new(density, side_length)
    /\ fn_in \in TopStates
    /\ fn_out = <<>>
    /\ fn_done = FALSE

\* ode.set_density(density)
TopSetDensity ==
    /\ fn_name = "top"
    /\ ~fn_ode.inertia.panicked
    /\ \E density \in TopDensities : fn_ode' = SpinningTopODE_set_density(fn_ode, density)
    /\ fn_out' = <<>>
    /\ fn_done' = FALSE
    /\ UNCHANGED <<fn_name, fn_in, solver_vars, presenter_vars>>

\* ode.set_side_length(side_length)
TopSetSideLength ==
    /\ fn_name = "top"
    /\ ~fn_ode.inertia.panicked
    /\ \E side_length \in TopSideLengths :
         fn_ode' = SpinningTopODE_set_side_length(fn_ode, side_length)
    /\ fn_out' = <<>>
    /\ fn_done' = FALSE
    /\ UNCHANGED <<fn_name, fn_in, solver_vars, presenter_vars>>

\* the checkbox bound to ode.enable_gravity is clicked
TopSetGravity ==
    /\ fn_name = "top"
    /\ ~fn_ode.inertia.panicked
    /\ fn_ode' = [fn_ode EXCEPT !.enable_gravity = ~@]
    /\ fn_out' = <<>>
    /\ fn_done' = FALSE
    /\ UNCHANGED <<fn_name, fn_in, solver_vars, presenter_vars>>

\* ode.derivative(state)
TopDerivative ==
    /\ fn_name = "top"
    /\ ~fn_ode.inertia.panicked
    /\ ~fn_done
    /\ fn_out' = SpinningTopODE_derivative(fn_ode, fn_in)
    /\ fn_done' = TRUE
    /\ UNCHANGED <<fn_name, fn_ode, fn_in, solver_vars, presenter_vars>>

NextTop == TopSetDensity \/ TopSetSideLength \/ TopSetGravity \/ TopDerivative

SpecTop == InitTop /\ [][NextTop]_vars

\* ------------------------------------------------------------------------
\* Specification SpecQuat: a quaternion taken through calls of normalize,
\* lerp and slerp, each on the result of the call before
\* ------------------------------------------------------------------------

\* calls made in a run
MaxQuatCalls == 2

\* the operands: unit quaternions at angles of 60, 120 and 180 degrees of
\* (1, 0, 0, 0), the zero quaternion and one that is not of unit norm
QuatOperands ==
    {Quat(<<Fx(1), 0, 0, 0>>), Quat(<<HALF, 866, 0, 0>>), Quat(<<-HALF, 866, 0, 0>>),
     Quat(<<-Fx(1), 0, 0, 0>>), Quat(<<0, 0, 0, 0>>), Quat(<<0, 0, 300, 400>>)}

\* the interpolation parameters
QuatParameters == {0, SCALE \div 4, HALF, Fx(1)}

\* what one call leaves: the call for the record, its result to go on with
QuatCalled(op, other, t, result) ==
    /\ fn_in' = [calls |-> fn_in.calls + 1, op |-> op, self |-> fn_out, other |-> other, t |-> t]
    /\ fn_out' = result
    /\ fn_done' = TRUE
    /\ UNCHANGED <<fn_name, fn_ode, solver_vars, presenter_vars>>

InitQuat ==
    /\ SolverIdle
    /\ PresenterIdle
    /\ fn_name = "quaternion"
    /\ fn_ode = NoSolver.ode
    /\ fn_out \in QuatOperands
    /\ fn_in = [calls |-> 0, op |-> "none", self |-> fn_out, other |-> fn_out, t |-> 0]
    /\ fn_done = FALSE

\* q.normalize()
QuatNormalize ==
    /\ fn_name = "quaternion"
    /\ fn_in.calls < MaxQuatCalls
    /\ QuatCalled("normalize", fn_out, 0, Quaternion_normalize(fn_out))

\* q.lerp(&other, t)
QuatLerp ==
    /\ fn_name = "quaternion"
    /\ fn_in.calls < MaxQuatCalls
    /\ \E other \in QuatOperands, t \in QuatParameters :
         QuatCalled("lerp", other, t, Quaternion_lerp(fn_out, other, t))

\* q.slerp(&other, t)
QuatSlerp ==
    /\ fn_name = "quaternion"
    /\ fn_in.calls < MaxQuatCalls
    /\ \E other \in QuatOperands, t \in QuatParameters :
         QuatCalled("slerp", other, t, Quaternion_slerp(fn_out, other, t))

NextQuat == QuatNormalize \/ QuatLerp \/ QuatSlerp

SpecQuat == InitQuat /\ [][NextQuat]_vars

\* ------------------------------------------------------------------------
\* Specification SpecAngle: an Angle built by from_rad or from_deg and
\* taken through +, -, negation and dist
\* ------------------------------------------------------------------------

\* std::f64::consts::PI
PI == 2 * FRAC_PI_2

\* f64::rem_euclid: the remainder that is never negative
RemEuclid(x, m) == x % m

\* f64::to_radians: x * (PI / 180)
ToRadians(x) == TruncDiv(x * PI, 180 * SCALE)

\* Angle::from_rad
Angle_from_rad(value) == RemEuclid(value, PI * 2)

\* Angle::from_deg
Angle_from_deg(value) == RemEuclid(ToRadians(value), PI * 2)

\* impl Add for Angle
Angle_add(self, rhs) == Angle_from_rad(self + rhs)

\* impl Sub for Angle
Angle_sub(self, rhs) == Angle_from_rad(self - rhs)

\* impl Neg for Angle
Angle_neg(self) == Angle_from_rad(-self)

\* f64::min
Min(a, b) == IF a < b THEN a ELSE b

\* Angle::dist that measures one way round only
Angle_dist_one_way(self, other) == Angle_from_rad(Angle_sub(self, other))

\* Angle::dist
Angle_dist(self, other) ==
    Angle_from_rad(Min(Angle_sub(self, other), Angle_sub(other, self)))

\* calls made on an angle in a run
MaxAngleCalls == 2

\* the radians handed to from_rad: in and out of [0, 2 * PI), negative,
\* on the ends and whole turns apart
AngleRadians ==
    {0, Fx(1), PI, PI + 1, PI * 2 - 1, PI * 2, Fx(7), -Fx(1), -PI, -(PI * 2), -Fx(7),
     Fx(1) + PI * 4, Fx(1) - PI * 6}

\* the degrees handed to from_deg
AngleDegrees == {-Fx(90), 0, Fx(90), Fx(180), Fx(270)}

\* the angles a caller can hold
Angles ==
    {Angle_from_rad(v) : v \in AngleRadians} \cup {Angle_from_deg(v) : v \in AngleDegrees}

\* what one call leaves: the call and the value it wrapped for the record,
\* its result to go on with
AngleCalled(op, other, value, result) ==
    /\ fn_in' = [calls |-> fn_in.calls + 1, op |-> op, self |-> fn_out, other |-> other,
                 value |-> value]
    /\ fn_out' = result
    /\ fn_done' = TRUE
    /\ UNCHANGED <<fn_name, fn_ode, solver_vars, presenter_vars>>

InitAngle ==
    /\ SolverIdle
    /\ PresenterIdle
    /\ fn_name = "angle"
    /\ fn_ode = NoSolver.ode
    /\ \E op \in {"from_rad", "from_deg"} :
         \E value \in IF op = "from_rad" THEN AngleRadians ELSE AngleDegrees :
            /\ fn_out = IF op = "from_rad" THEN Angle_from_rad(value) ELSE Angle_from_deg(value)
            /\ fn_in = [calls |-> 0, op |-> op, self |-> fn_out, other |-> fn_out,
                        value |-> value]
    /\ fn_done = TRUE

\* a + b
AngleAdd ==
    /\ fn_name = "angle"
    /\ fn_in.calls < MaxAngleCalls
    /\ \E rhs \in Angles : AngleCalled("add", rhs, fn_out + rhs, Angle_add(fn_out, rhs))

\* a - b
AngleSub ==
    /\ fn_name = "angle"
    /\ fn_in.calls < MaxAngleCalls
    /\ \E rhs \in Angles : AngleCalled("sub", rhs, fn_out - rhs, Angle_sub(fn_out, rhs))

\* -a
AngleNeg ==
    /\ fn_name = "angle"
    /\ fn_in.calls < MaxAngleCalls
    /\ AngleCalled("neg", fn_out, -fn_out, Angle_neg(fn_out))

\* a.dist(b)
AngleDist ==
    /\ fn_name = "angle"
    /\ fn_in.calls < MaxAngleCalls
    /\ \E other \in Angles :
         AngleCalled("dist", other,
                     Min(Angle_sub(fn_out, other), Angle_sub(other, fn_out)),
                     Angle_dist(fn_out, other))

NextAngle == AngleAdd \/ AngleSub \/ AngleNeg \/ AngleDist

SpecAngle == InitAngle /\ [][NextAngle]_vars

\* ------------------------------------------------------------------------

\* Specification SpecStages: one RungeKuttaIV::step on the JellyODE, a
\* derivative call at a time, with the control frame's widgets
\* ------------------------------------------------------------------------

\* passes of ControlFrame::ui in a run in which the frame is dragged
MaxStageUiEvents == 2

\* the step size of the solver
StageDeltas == {SCALE \div 10}

\* what the control frame's widgets are dragged to
StageUiInputs ==
    ControlFrames \cup {[translation |-> <<Fx(1), 0, -Fx(11)>>, rotation |-> <<HALF, HALF, HALF, HALF>>]}

\* the State the stage-th derivative call of RungeKuttaIV::step is made on,
\* given the derivatives k of the calls before
RungeKuttaIV_stage_state(solver, state, k, stage) ==
    CASE stage = 1 -> state
      [] stage = 2 -> RungeKuttaIV_half(solver, state, k[1])
      [] stage = 3 -> RungeKuttaIV_half(solver, state, k[2])
      [] OTHER -> RungeKuttaIV_last(solver, state, k[3])

InitStages ==
    /\ SolverIdle
    /\ PresenterIdle
    /\ fn_name = "stages"
    /\ \E frame \in ControlFrames : fn_ode = JellyODE_new(frame)
    /\ \E delta \in StageDeltas, p \in DerivativePositions, v \in DerivativeVelocities :
         fn_in = [state |-> WithPoint(JellyODE_default_state, 0, p, v), delta |-> delta,
                  stage |-> 0, k |-> <<>>, reads |-> <<>>, frames |-> <<>>, ui |-> 0]
    /\ fn_out = <<>>
    /\ fn_done = FALSE

\* ControlFrame::ui let in between two derivative calls of a step
StageControlFrameUi_mid_step ==
    /\ fn_name = "stages"
    /\ fn_in.ui < MaxStageUiEvents
    /\ \E input \in StageUiInputs :
         fn_ode' = [fn_ode EXCEPT !.control_frame = ControlFrame_ui(@, input)]
    /\ fn_in' = [fn_in EXCEPT !.ui = @ + 1]
    /\ UNCHANGED <<fn_name, fn_out, fn_done, solver_vars, presenter_vars>>

\* ControlFrame::ui with the frame dragged: render calls update, which runs
\* the step to its end, before draw_ui shows the widgets, so the widgets
\* run when no step is under way
StageControlFrameUi ==
    /\ fn_name = "stages"
    /\ fn_in.stage = 0 \/ fn_done
    /\ fn_in.ui < MaxStageUiEvents
    /\ \E input \in StageUiInputs :
         fn_ode' = [fn_ode EXCEPT !.control_frame = ControlFrame_ui(@, input)]
    /\ fn_in' = [fn_in EXCEPT !.ui = @ + 1]
    /\ UNCHANGED <<fn_name, fn_out, fn_done, solver_vars, presenter_vars>>

\* one self.ode.derivative(..) of RungeKuttaIV::step on the JellyODE: the
\* control frame is borrowed and composed once, then the forces are summed
StageDerivative ==
    /\ fn_name = "stages"
    /\ ~fn_done
    /\ fn_in.stage < 4
    /\ LET solver == [delta |-> fn_in.delta, ode |-> fn_ode]
           at == RungeKuttaIV_stage_state(solver, fn_in.state, fn_in.k, fn_in.stage + 1)
       IN  fn_in' = [fn_in EXCEPT
                !.stage = @ + 1,
                !.k = Append(@, JellyODE_derivative(fn_ode, at)),
                !.reads = Append(@, ControlFrameTransform_compose(fn_ode.control_frame)),
                !.frames = Append(@, fn_ode.control_frame)]
    /\ UNCHANGED <<fn_name, fn_ode, fn_out, fn_done, solver_vars, presenter_vars>>

\* RungeKuttaIV::step returns the weighted sum of its four derivatives
StageReturn ==
    /\ fn_name = "stages"
    /\ ~fn_done
    /\ fn_in.stage = 4
    /\ fn_out' = RungeKuttaIV_sum([delta |-> fn_in.delta, ode |-> fn_ode], fn_in.state,
                                  fn_in.k[1], fn_in.k[2], fn_in.k[3], fn_in.k[4])
    /\ fn_done' = TRUE
    /\ UNCHANGED <<fn_name, fn_ode, fn_in, solver_vars, presenter_vars>>

NextStages == StageControlFrameUi \/ StageDerivative \/ StageReturn

SpecStages == InitStages /\ [][NextStages]_vars

\* ------------------------------------------------------------------------

\* Specification SpecMain: the render calls of the main loop, with what the
\* user clicks in the side panel of each
\* ------------------------------------------------------------------------

\* render calls of a run
MaxRenders == 4

\* the presenters main builds: kinematic chain, jelly, quaternions, spinning
\* top, spring
PresenterCount == 5

\* milliseconds between two render calls
FrameTimes == {1, 16, 500}

\* what the user clicks in a frame: nothing, an entry of the presenter
\* selection box, the Play / Pause button or the Reset button
UiClicks ==
    {[kind |-> "none", i |-> 0], [kind |-> "button", i |-> 0], [kind |-> "reset", i |-> 0]}
        \cup {[kind |-> "select", i |-> i] : i \in 0..(PresenterCount - 1)}

\* Option<Instant>
None == [some |-> FALSE, at |-> 0]

Some(at) == [some |-> TRUE, at |-> at]

\* draw_ui: the selection box sets current_presenter and pauses when an
\* entry is clicked, the button toggles paused
draw_ui(loop, click) ==
    LET selected == IF click.kind = "select"
                    THEN [loop EXCEPT !.current_presenter = click.i, !.paused = TRUE]
                    ELSE loop
    IN  IF click.kind = "button" THEN [selected EXCEPT !.paused = ~@] ELSE selected

\* render that updates the presenter whether paused or not
render_unpaused(loop, now, click) ==
    LET delta == IF loop.last_draw.some THEN Some(now - loop.last_draw.at) ELSE None
        updated == delta.some
    IN  [loop |-> draw_ui([loop EXCEPT !.last_draw = Some(now)], click),
         updated |-> updated,
         update |-> [presenter |-> loop.current_presenter, delta |-> delta.at]]

\* render: the update of the current presenter by the time since last_draw
\* when not paused, last_draw = Some(now), then draw_ui
render(loop, now, click) ==
    LET delta == IF loop.last_draw.some THEN Some(now - loop.last_draw.at) ELSE None
        updated == ~loop.paused /\ delta.some
    IN  [loop |-> draw_ui([loop EXCEPT !.last_draw = Some(now)], click),
         updated |-> updated,
         update |-> [presenter |-> loop.current_presenter, delta |-> delta.at]]

\* main: the variables the closure of the event loop owns
InitMain ==
    /\ SolverIdle
    /\ PresenterIdle
    /\ fn_name = "main"
    /\ fn_ode = NoSolver.ode
    /\ fn_in = [loop |-> [current_presenter |-> 0, paused |-> TRUE, last_draw |-> None],
                now |-> 0, renders |-> <<>>, entry |-> <<>>, click |-> "none"]
    /\ fn_out = <<>>
    /\ fn_done = FALSE

\* Event::RedrawRequested: render runs at some later instant; the calls of
\* render and of update are kept for the record
Render ==
    /\ fn_name = "main"
    /\ Len(fn_in.renders) < MaxRenders
    /\ \E elapsed \in FrameTimes, click \in UiClicks :
        \E r \in {render(fn_in.loop, fn_in.now + elapsed, click)} :
            /\ fn_in' = [loop |-> r.loop, now |-> fn_in.now + elapsed,
                         renders |-> Append(fn_in.renders, fn_in.now + elapsed),
                         entry |-> Append(fn_in.entry, fn_in.loop),
                         click |-> click.kind]
            /\ fn_out' = IF r.updated
                         THEN Append(fn_out, [presenter |-> r.update.presenter,
                                              delta |-> r.update.delta,
                                              render |-> Len(fn_in.renders) + 1])
                         ELSE fn_out
            /\ fn_done' = TRUE
    /\ UNCHANGED <<fn_name, fn_ode, solver_vars, presenter_vars>>

NextMain == Render

SpecMain == InitMain /\ [][NextMain]_vars

\* ------------------------------------------------------------------------

\* Specification SpecBFS: BFSMap::from_obstructions, an iteration of its
\* loop at a time, and path_to on the map it returns
\* ------------------------------------------------------------------------

\* cells along each angle of the configuration grid: CONFIG_SIZE, which is
\* 360 in the program, scaled down
ConfigSize == 4

\* the cells (alpha_1, alpha_2) of the configuration grid
Cells == (0..(ConfigSize - 1)) \X (0..(ConfigSize - 1))

\* x.to_degrees().rem_euclid(360.0).floor() as usize, for an angle in
\* thousandths of a cell
CellOfAngle(x) == RemEuclid(x, ConfigSize * SCALE) \div SCALE

\* the cell of a point of the configuration space
CellOfPoint(p) == <<CellOfAngle(p[1]), CellOfAngle(p[2])>>

\* Option<BFSTrove>
NoTrove == [some |-> FALSE, previous |-> None, distance |-> 0]

BFSTrove(previous, distance) == [some |-> TRUE, previous |-> previous, distance |-> distance]

\* the neighbours the loop looks at, in its order, that stay on the grid
\* without wrapping around
BFSMap_neighbours_no_wrap(cell) ==
    SelectSeq([n \in 1..4 |->
                  <<cell[1] + <<0, 1, -1, 0>>[n], cell[2] + <<1, 0, 0, -1>>[n]>>],
              LAMBDA c : c \in Cells)

\* the neighbours the loop looks at, in its order: (0, 1), (1, 0), (-1, 0),
\* (0, -1) added with rem_euclid(CONFIG_SIZE)
BFSMap_neighbours(cell) ==
    [n \in 1..4 |->
        <<RemEuclid(cell[1] + <<0, 1, -1, 0>>[n], ConfigSize),
          RemEuclid(cell[2] + <<1, 0, 0, -1>>[n], ConfigSize)>>]

\* one iteration of the while loop of from_obstructions: the node at the
\* front of the queue is dropped when its cell holds a trove that is not
\* farther; else its trove is stored and the neighbours that are not
\* obstructed and hold no trove as near are pushed
BFSMap_visit(troves, queue, obstructed) ==
    LET node == Head(queue)
        existing == troves[node.cell]
        stored == [troves EXCEPT ![node.cell] = node.trove]
        open(c) == /\ c \notin obstructed
                   /\ (~stored[c].some \/ stored[c].distance > node.trove.distance + 1)
        pushed == SelectSeq(BFSMap_neighbours(node.cell), open)
    IN  IF existing.some /\ existing.distance <= node.trove.distance
        THEN [troves |-> troves, queue |-> Tail(queue)]
        ELSE [troves |-> stored,
              queue |-> Tail(queue) \o
                  [n \in 1..Len(pushed) |->
                      [cell |-> pushed[n],
                       trove |-> BFSTrove([some |-> TRUE, at |-> node.cell],
                                          node.trove.distance + 1)]]]

RECURSIVE BFSMap_path_from(_, _, _, _)
\* the while loop of path_to: the cells pushed after `current`, as long as
\* it has a previous; unwrap panics when that cell holds no trove.  `left`
\* bounds the hops followed
BFSMap_path_from(troves, current, path, left) ==
    IF ~current.previous.some THEN [path |-> path, panicked |-> FALSE, ended |-> TRUE]
    ELSE IF ~troves[current.previous.at].some
    THEN [path |-> path, panicked |-> TRUE, ended |-> TRUE]
    ELSE IF left = 0 THEN [path |-> path, panicked |-> FALSE, ended |-> FALSE]
    ELSE BFSMap_path_from(troves, troves[current.previous.at],
                          Append(path, current.previous.at), left - 1)

\* BFSMap::path_to(target): None for a target whose cell holds no trove,
\* else the cells from the start to the target
BFSMap_path_to(troves, target) ==
    LET reverse(s) == [n \in 1..Len(s) |-> s[Len(s) + 1 - n]]
        found(r) == [some |-> TRUE, path |-> reverse(r.path), panicked |-> r.panicked,
                     ended |-> r.ended]
    IN  IF ~troves[CellOfPoint(target)].some
        THEN [some |-> FALSE, path |-> <<>>, panicked |-> FALSE, ended |-> TRUE]
        ELSE found(BFSMap_path_from(troves, troves[CellOfPoint(target)],
                                    <<CellOfPoint(target)>>, ConfigSize * ConfigSize))

\* the obstructed cells of the configurations: none, two rings that cut
\* the grid in two, a maze and a start closed in
Obstructions ==
    {{},
     {c \in Cells : c[1] \in {1, 3}},
     {<<1, 0>>, <<1, 1>>, <<1, 2>>, <<3, 1>>, <<3, 2>>, <<3, 3>>, <<0, 2>>, <<2, 0>>,
      <<2, 2>>},
     {<<0, 1>>, <<1, 0>>, <<0, 3>>, <<3, 0>>, <<2, 2>>},
     {<<0, 0>>, <<2, 1>>}}

\* the angles of a start or a target, in thousandths of a cell: in and out
\* of a turn
ConfigAngles == {0, 1500, 2999, -1, 4 * SCALE + 1}

\* the starts: none, or a point
Starts == {None} \cup {Some(<<x, y>>) : x \in ConfigAngles, y \in {0, 1500, -1}}

\* from_obstructions up to its loop: no trove, and the start in the queue
InitBFS ==
    /\ SolverIdle
    /\ PresenterIdle
    /\ fn_name = "bfs"
    /\ \E obstructed \in Obstructions : fn_ode = [kind |-> "config", obstructed |-> obstructed]
    /\ \E start \in Starts :
         fn_in = [start |-> start,
                  queue |-> IF start.some
                            THEN <<[cell |-> CellOfPoint(start.at), trove |-> BFSTrove(None, 0)]>>
                            ELSE <<>>,
                  visits |-> 0,
                  target |-> None,
                  found |-> [some |-> FALSE, path |-> <<>>, panicked |-> FALSE, ended |-> TRUE]]
    /\ fn_out = [c \in Cells |-> NoTrove]
    /\ fn_done = FALSE

\* while let Some(node) = queue.pop_front() { .. }: one more iteration
BfsVisit ==
    /\ fn_name = "bfs"
    /\ ~fn_done
    /\ fn_in.queue # <<>>
    /\ \E r \in {BFSMap_visit(fn_out, fn_in.queue, fn_ode.obstructed)} :
        /\ fn_out' = r.troves
        /\ fn_in' = [fn_in EXCEPT !.queue = r.queue, !.visits = @ + 1]
    /\ UNCHANGED <<fn_name, fn_ode, fn_done, solver_vars, presenter_vars>>

\* the queue is empty: Self(troves) is returned
BfsReturn ==
    /\ fn_name = "bfs"
    /\ ~fn_done
    /\ fn_in.queue = <<>>
    /\ fn_done' = TRUE
    /\ UNCHANGED <<fn_name, fn_ode, fn_in, fn_out, solver_vars, presenter_vars>>

\* self.map.path_to(&target)
BfsPathTo ==
    /\ fn_name = "bfs"
    /\ fn_done
    /\ \E x \in ConfigAngles, y \in ConfigAngles :
         fn_in' = [fn_in EXCEPT !.target = Some(<<x, y>>),
                                !.found = BFSMap_path_to(fn_out, <<x, y>>)]
    /\ UNCHANGED <<fn_name, fn_ode, fn_out, fn_done, solver_vars, presenter_vars>>

NextBFS == BfsVisit \/ BfsReturn \/ BfsPathTo

SpecBFS == InitBFS /\ [][NextBFS]_vars

\* ------------------------------------------------------------------------

\* Specification SpecPresenter: a presenter driven by the frames of the
\* main loop: update(delta), and show_side_ui between the updates
\* ------------------------------------------------------------------------

\* update calls of a run
MaxFrames == 2

\* show_side_ui calls of a run in which a widget is touched
MaxUiEvents == 1

\* the frame times, in milliseconds
Deltas == {0, 5, 10}

\* the rotation SpinningTopBuilder::build hands to SpinningTop::new for a
\* tilt of 0 and of 30 degrees, as (w, i, j, k)
TopRotations == {<<888, -325, 0, 325>>, <<739, -476, 0, 476>>}

\* the angular velocity it hands over for angular_velocity 0 and 1
TopAngularVelocities == {<<0, 0, 0>>, <<816, 816, 816>>}

\* what rng.gen::<f64>() returns over one apply_random_disruption, by the
\* entry of y it is drawn for: 0.75 for the first velocity entry and 0.5 for
\* the others
RandomKick == [i \in 0..(ODE_DIM - 1) |-> IF i = SPACE_DIM THEN 3 * (SCALE \div 4) ELSE HALF] @@ <<>>

\* and 0 for every entry
RandomLow == [i \in 0..(ODE_DIM - 1) |-> 0] @@ <<>>

\* the widgets of the jelly's side panel as they show s
JellyUntouched(s) ==
    [translation |-> s.solver.ode.control_frame.translation,
     rotation |-> s.solver.ode.control_frame.rotation,
     simulation_speed |-> s.simulation_speed,
     delta |-> s.solver.delta,
     disruption_strength |-> s.disruption_strength,
     clicked |-> FALSE,
     rnd |-> <<>>,
     point_mass |-> s.solver.ode.point_mass,
     elasticity_coefficient |-> s.solver.ode.elasticity_coefficient,
     inner_spring_constant |-> s.solver.ode.inner_spring_constant,
     corner_spring_constant |-> s.solver.ode.corner_spring_constant,
     damping_factor |-> s.solver.ode.damping_factor]

\* what the user does to the jelly's side panel in one pass
JellyUiInputs(s) ==
    LET same == JellyUntouched(s)
        loose == [same EXCEPT !.delta = Fx(60), !.clicked = TRUE,
                              !.inner_spring_constant = 0, !.corner_spring_constant = 0,
                              !.damping_factor = 0]
    IN  { [same EXCEPT !.simulation_speed = Fx(2), !.translation = <<Fx(1), 0, -Fx(11)>>],
          [same EXCEPT !.clicked = TRUE,
                       !.rnd = RandomKick],
          [loose EXCEPT !.disruption_strength = Fx(40), !.elasticity_coefficient = Fx(2),
                        !.rnd = RandomKick],
          [loose EXCEPT !.disruption_strength = Fx(4), !.elasticity_coefficient = HALF,
                        !.rnd = RandomLow] }

\* the widgets of the top's side panel as they show s
TopUntouched(s) ==
    [enable_gravity |-> s.solver.ode.enable_gravity,
     gravity_y |-> s.solver.ode.gravity[2],
     density |-> s.solver.ode.density,
     side_length |-> s.solver.ode.side_length,
     simulation_speed |-> s.simulation_speed,
     delta |-> s.solver.delta]

\* what the user does to the top's side panel in one pass
TopUiInputs(s) ==
    LET same == TopUntouched(s)
    IN  { [same EXCEPT !.simulation_speed = Fx(2)],
          [same EXCEPT !.enable_gravity = FALSE, !.density = Fx(5)],
          [same EXCEPT !.delta = 0, !.side_length = Fx(1), !.gravity_y = -Fx(50)],
          [same EXCEPT !.enable_gravity = FALSE, !.delta = Fx(2)] }

InitPresenter ==
    /\ SolverIdle
    /\ FnIdle
    /\ presenter \in {"jelly", "top"}
    /\ IF presenter = "jelly"
       THEN Constructed(Simulation_new(ControlFrameTransform_new))
       ELSE \E rotation \in TopRotations, angular_velocity \in TopAngularVelocities :
                Constructed(SpinningTop_new(rotation, angular_velocity))

\* history of an update that starts
UpdateStarts(delta) ==
    /\ pc = "idle"
    /\ frames < MaxFrames
    /\ pc' = "loop"
    /\ frames' = frames + 1
    /\ since' = [since EXCEPT !.total = @ + delta]
    /\ upd_steps' = 0
    /\ upd_entry' = [sim |-> sim, delta |-> delta]
    /\ UNCHANGED <<presenter, ui_n, steps, raw, accepted, disrupted, last_step,
                   solver_vars, fn_vars>>

\* history of a step_update in which solver.step returns `stepped`
StepUpdates(stepped) ==
    /\ pc = "loop"
    /\ steps' = steps + 1
    /\ upd_steps' = upd_steps + 1
    /\ raw' = stepped
    /\ accepted' = sim'.state
    /\ disrupted' = FALSE
    /\ last_step' = [fed |-> sim.state, prev_accepted |-> accepted, disrupted |-> disrupted,
                     ode |-> sim.solver.ode, inner |-> upd_steps > 0]
    /\ UNCHANGED <<presenter, pc, since, frames, ui_n, upd_entry, solver_vars, fn_vars>>

\* history of an update that returns
UpdateReturns ==
    /\ pc = "loop"
    /\ pc' = "idle"
    /\ UNCHANGED <<presenter, sim, since, frames, ui_n, steps, upd_steps, upd_entry, raw,
                   accepted, disrupted, last_step, solver_vars, fn_vars>>

\* history of a show_side_ui that leaves sim'
UiPasses(clicked) ==
    /\ pc = "idle"
    /\ ui_n < MaxUiEvents
    /\ ui_n' = ui_n + 1
    /\ since' = [sim |-> sim', total |-> 0, steps |-> steps]
    /\ disrupted' = (disrupted \/ clicked)
    /\ UNCHANGED <<presenter, pc, frames, steps, upd_steps, upd_entry, raw, accepted,
                   last_step, solver_vars, fn_vars>>

\* Simulation::update is entered
JellyUpdate ==
    /\ presenter = "jelly"
    /\ \E delta \in Deltas :
        /\ sim' = Simulation_update_elapse(sim, delta)
        /\ UpdateStarts(delta)

\* Simulation::update runs its loop body
JellyStepUpdate ==
    /\ presenter = "jelly"
    /\ Simulation_update_loops(sim)
    /\ \E stepped \in {RungeKuttaIV_step(sim.solver, sim.state)} :
        /\ sim' = Simulation_accept(sim, stepped)
        /\ StepUpdates(stepped)

\* Simulation::update leaves its loop
JellyUpdateReturn ==
    /\ presenter = "jelly"
    /\ ~Simulation_update_loops(sim)
    /\ UpdateReturns

\* Jelly::show_side_ui
JellyShowSideUi ==
    /\ presenter = "jelly"
    /\ \E input \in JellyUiInputs(sim) :
        /\ sim' = Jelly_show_side_ui(sim, input)
        /\ UiPasses(input.clicked)

\* SpinningTop::update is entered
TopUpdate ==
    /\ presenter = "top"
    /\ \E delta \in Deltas :
        /\ sim' = SpinningTop_update_elapse(sim, delta)
        /\ UpdateStarts(delta)

\* SpinningTop::update runs its loop body
TopStepUpdate ==
    /\ presenter = "top"
    /\ SpinningTop_update_loops(sim)
    /\ \E stepped \in {RungeKuttaIV_step(sim.solver, sim.state)} :
        /\ sim' = SpinningTop_accept(sim, stepped)
        /\ StepUpdates(stepped)

\* SpinningTop::update leaves its loop
TopUpdateReturn ==
    /\ presenter = "top"
    /\ ~SpinningTop_update_loops(sim)
    /\ UpdateReturns

\* SpinningTop::show_side_ui
TopShowSideUi ==
    /\ presenter = "top"
    /\ \E input \in TopUiInputs(sim) :
        /\ sim' = SpinningTop_show_side_ui(sim, input)
        /\ UiPasses(FALSE)

NextPresenter ==
    \/ JellyUpdate \/ JellyStepUpdate \/ JellyUpdateReturn \/ JellyShowSideUi
    \/ TopUpdate \/ TopStepUpdate \/ TopUpdateReturn \/ TopShowSideUi

\* the loop of update goes on: the step of a step_update, or of the return
\* from update, as pc and steps show it
UpdateLoopStep ==
    /\ pc = "loop"
    /\ \/ pc' = "loop" /\ steps' = steps + 1
       \/ pc' = "idle" /\ steps' = steps

\* update is a synchronous call on the one thread of the program: once
\* entered, its loop keeps running until it returns
SpecPresenter ==
    /\ InitPresenter
    /\ [][NextPresenter]_vars
    /\ WF_<<pc, steps>>(UpdateLoopStep)

\* ------------------------------------------------------------------------
\* Properties of the solvers (SpecSolver)
\* ------------------------------------------------------------------------

\* the input of the last RungeKuttaIV::step call
RKIn_t == rk_in.state.t

RKIn_y == rk_in.state.y

RKIn_h == rk_in.solver.delta

RKIn_f(state) == PlainODE_derivative(rk_in.solver.ode, state)

\* C1: the fourth stage of RungeKuttaIV::step is evaluated at time t + h:
\* the State handed to ode.derivative for k4 has t = t + h and y = y + h*k3.
C1_FourthStageAtFullStep ==
    rk_n > 0 =>
        /\ rk_calls[4].t = RKIn_t + RKIn_h
        /\ rk_calls[4].y = VAdd(RKIn_y, VMul(RKIn_f(rk_calls[3]), RKIn_h))

\* C2: RungeKuttaIV::step returns t' = t + h and
\* y' = y + h/6 * (k1 + 2*k2 + 2*k3 + k4) with k1 = f(t, y),
\* k2 = f(t + h/2, y + h/2*k1), k3 = f(t + h/2, y + h/2*k2) evaluated in
\* that order (k4 is the derivative at the fourth state handed to the ODE).
C2_WeightedSum ==
    rk_n > 0 =>
        LET t  == RKIn_t
            y  == RKIn_y
            h  == RKIn_h
            k1 == RKIn_f(State(t, y))
            s2 == State(t + Mul(h, HALF), VAdd(y, VMul(VMul(k1, h), HALF)))
            k2 == RKIn_f(s2)
            s3 == State(t + Mul(h, HALF), VAdd(y, VMul(VMul(k2, h), HALF)))
            k3 == RKIn_f(s3)
            k4 == RKIn_f(rk_calls[4])
            weighted == [i \in DOMAIN y |-> k1[i] + 2 * k2[i] + 2 * k3[i] + k4[i]]
        IN  /\ Len(rk_calls) = 4
            /\ rk_calls[1] = State(t, y)
            /\ rk_calls[2] = s2
            /\ rk_calls[3] = s3
            /\ rk_state.t = t + h
            /\ rk_state.y = VAdd(y, VDiv(VMul(weighted, h), Fx(6)))

\* a step of an ODE whose solution is not a straight line has been taken
C2_Witness ==
    /\ rk_n = 2
    /\ rk.ode.a # 0
    /\ rk.ode.b # 0
    /\ rk_state.y # rk_in.state.y

\* C3: EulerODESolver::step sets y' = y + h*f(t, y) and t' = t + h, the
\* derivative taken at the old t and y; with a constant derivative c the
\* ODE holds t0 + n*h and y0 + n*h*c after n steps.
C3_EulerStep ==
    (sut = "euler" /\ eu_n > 0) =>
        /\ ODE_t(euler.ode) = ODE_t(eu_prev) + euler.delta
        /\ ODE_y(euler.ode) = VAdd(ODE_y(eu_prev), VMul(ODE_derivative(eu_prev), euler.delta))
        /\ (euler.ode.kind = "affine" /\ euler.ode.a = 0 /\ euler.ode.b = 0) =>
                /\ ODE_t(euler.ode) = ODE_t(eu_init) + eu_n * euler.delta
                /\ ODE_y(euler.ode)[1] =
                        ODE_y(eu_init)[1] + Mul(eu_n * euler.delta, euler.ode.c)

\* dy/dt = 1 stepped 100 times with h = 0.01 from y = 0 has reached y = 1
C3_Witness ==
    /\ eu_n = 100
    /\ euler.ode.kind = "affine"
    /\ euler.delta = 10
    /\ euler.ode.a = 0 /\ euler.ode.b = 0 /\ euler.ode.c = Fx(1)
    /\ ODE_y(eu_init) = <<0>>
    /\ ODE_y(euler.ode) = <<Fx(1)>>

\* C4: a solver step is a pure mapping: it leaves the ODE object and the
\* input state as they were, and the state it returns is a function of the
\* input state and the ODE alone.
C4_StepsArePure ==
    /\ eu_n > 0 => euler.ode = eu_prev
    /\ rk_n > 0 =>
        /\ rk = rk_in.solver
        /\ rk_state = RungeKuttaIV_step(rk_in.solver, rk_in.state)

\* the solver under test integrates dy/dt = -k * y
LinearDecay ==
    /\ sut = "rk" /\ rk.ode.kind = "affine"
    /\ rk.ode.a = 0 /\ rk.ode.c = 0 /\ rk.ode.b < 0

\* z = h * k, a whole number for the solvers of the model
DecayZ == Mul(rk.delta, -rk.ode.b) \div SCALE

\* 24 times the Taylor polynomial of exp(-z) of degree four,
\* 24 * (1 - z + z^2 / 2 - z^3 / 6 + z^4 / 24)
Taylor24(z) == 24 - 24 * z + 12 * z * z - 4 * z * z * z + z * z * z * z

\* x to the n-th power
RECURSIVE IPow(_, _)
IPow(x, n) == IF n = 0 THEN 1 ELSE x * IPow(x, n - 1)

\* what the truncations of n steps leave of 24^n * y, one unit of the
\* scale a step, carried through the steps after it
RECURSIVE DecayRounding(_, _)
DecayRounding(z, n) ==
    IF n = 0 THEN 0 ELSE Abs(Taylor24(z)) * DecayRounding(z, n - 1) + IPow(24, n)

\* C25: on dy/dt = -k * y a step of size h of RungeKuttaIV maps y to
\* y * (1 - z + z^2 / 2 - z^3 / 6 + z^4 / 24) with z = h * k, and n steps
\* map y0 to y0 times the n-th power of that factor, at t = t0 + n * h
C25_TaylorFactor ==
    LinearDecay =>
        /\ DecayZ * SCALE = Mul(rk.delta, -rk.ode.b)
        /\ rk_state.t = rk_init.t + rk_n * rk.delta
        /\ Abs(IPow(24, rk_n) * rk_state.y[1] - IPow(Taylor24(DecayZ), rk_n) * rk_init.y[1])
              <= DecayRounding(DecayZ, rk_n)

\* two steps taken on dy/dt = -y from a y0 that is not zero, with z = 2,
\* where the factor is 1/3
C25_Witness ==
    /\ LinearDecay /\ rk_n = 2
    /\ DecayZ = 2 /\ Taylor24(DecayZ) = 8
    /\ rk_init.y[1] = -Fx(3)
    /\ rk_state.y[1] \in {-334, -333}

\* ------------------------------------------------------------------------
\* Properties of the wall collisions
\* ------------------------------------------------------------------------

InRoom(c) == -ROOM_HALF_SIZE <= c /\ c <= ROOM_HALF_SIZE

\* the wall the coordinate c lies beyond
ViolatedWall(c) == IF c > ROOM_HALF_SIZE THEN ROOM_HALF_SIZE ELSE -ROOM_HALF_SIZE

\* c lies outside the room by less than 2 * ROOM_HALF_SIZE
JustOutside(c) == ~InRoom(c) /\ Abs(c) - ROOM_HALF_SIZE < 2 * ROOM_HALF_SIZE

\* the point at index i of `before` is outside the room on axis a alone, by
\* less than 2 * ROOM_HALF_SIZE, and `after` holds it reflected once
ReflectedOnce(ode, before, after, i, a) ==
    LET p == Point3(before.y, i)
        v == Point3(before.y, i + SPACE_DIM)
        q == Point3(after.y, i)
        u == Point3(after.y, i + SPACE_DIM)
    IN  (JustOutside(p[a]) /\ \A b \in (1..3) \ {a} : InRoom(p[b])) =>
            /\ q[a] = 2 * ViolatedWall(p[a]) - p[a]
            /\ InRoom(q[a])
            /\ u[a] = Mul(-v[a], ode.elasticity_coefficient)
            /\ \A b \in (1..3) \ {a} :
                    /\ q[b] = p[b]
                    /\ u[b] = Mul(v[b], ode.elasticity_coefficient)

\* C8: apply_collisions on a point outside the room on exactly one axis by
\* less than 2 * ROOM_HALF_SIZE reflects that coordinate about the violated
\* wall into the room, negates that velocity component, scales all three
\* velocity components by elasticity_coefficient once and leaves the other
\* two position coordinates alone.
C8_SingleReflection ==
    fn_done =>
        \A n \in 0..(POINT_COUNT - 1), a \in 1..3 :
            ReflectedOnce(fn_ode, fn_in, fn_out, 3 * n, a)

\* a moving point beyond the +y wall alone has been reflected with
\* elasticity 0.1
C8_Witness ==
    /\ fn_done
    /\ fn_ode.elasticity_coefficient = SCALE \div 10
    /\ Point3(fn_in.y, 189) = <<0, 14999, 0>>
    /\ Point3(fn_in.y, 189 + SPACE_DIM) = <<-Fx(3), Fx(4), 5500>>
    /\ Point3(fn_out.y, 189) = <<0, -4999, 0>>
    /\ Point3(fn_out.y, 189 + SPACE_DIM) = <<-300, -400, 550>>

\* every coordinate of the point at index i of state lies in the room
PointInRoom(state, i) == \A a \in 1..3 : InRoom(Point3(state.y, i)[a])

\* the state with every point but the one at index i at rest on the lattice
Alone(state, i) ==
    WithPoint(JellyODE_default_state, i, Point3(state.y, i), Point3(state.y, i + SPACE_DIM))

\* C27: apply_collisions leaves the time and the position and velocity of
\* every point whose three coordinates lie in [-ROOM_HALF_SIZE,
\* ROOM_HALF_SIZE], walls included, unchanged; what it does to a point does
\* not depend on the other points; and applied again to a state it left
\* with every point in the room it changes nothing
C27_CollisionsFrame ==
    (fn_name = "apply_collisions" /\ fn_done) =>
        /\ fn_out.t = fn_in.t
        /\ \A n \in 0..(POINT_COUNT - 1) :
             PointInRoom(fn_in, 3 * n) =>
                /\ Point3(fn_out.y, 3 * n) = Point3(fn_in.y, 3 * n)
                /\ Point3(fn_out.y, 3 * n + SPACE_DIM) = Point3(fn_in.y, 3 * n + SPACE_DIM)
        /\ \A i \in CollidePoints \cup {96} :
             \E alone \in {JellyODE_apply_collisions(fn_ode, Alone(fn_in, i))} :
                /\ Point3(fn_out.y, i) = Point3(alone.y, i)
                /\ Point3(fn_out.y, i + SPACE_DIM) = Point3(alone.y, i + SPACE_DIM)
        /\ (\A n \in 0..(POINT_COUNT - 1) : PointInRoom(fn_out, 3 * n)) =>
             JellyODE_apply_collisions(fn_ode, fn_out) = fn_out

\* a point beyond two walls collided while a moving point that lies on two
\* walls and the points at rest were left as they were, and a second pass
\* has nothing to do
C27_Witness ==
    /\ fn_name = "apply_collisions" /\ fn_done
    /\ fn_ode.elasticity_coefficient = SCALE \div 10
    /\ Point3(fn_in.y, 96) = <<-7500, 0, 16000>>
    /\ Point3(fn_out.y, 96) = <<-2500, 0, -4000>>
    /\ Point3(fn_out.y, 96 + SPACE_DIM) # Point3(fn_in.y, 96 + SPACE_DIM)
    /\ Point3(fn_in.y, 0) = <<ROOM_HALF_SIZE, ROOM_HALF_SIZE, 0>>
    /\ Point3(fn_in.y, SPACE_DIM) = <<-Fx(3), Fx(4), 5500>>
    /\ Point3(fn_out.y, 0) = Point3(fn_in.y, 0)
    /\ Point3(fn_out.y, SPACE_DIM) = Point3(fn_in.y, SPACE_DIM)
    /\ \A n \in 0..(POINT_COUNT - 1) : PointInRoom(fn_out, 3 * n)

\* the violated axes of a position, each outside the room by less than
\* 2 * ROOM_HALF_SIZE
ViolatedAxes(p) == {a \in 1..3 : ~InRoom(p[a])}

\* v scaled by the elasticity coefficient e, k times over
RECURSIVE ScaledTimes(_, _, _)
ScaledTimes(v, e, k) == IF k = 0 THEN v ELSE ScaledTimes(Mul3(v, e), e, k - 1)

\* the point at index i of `before` is outside the room on k axes, each by
\* less than 2 * ROOM_HALF_SIZE: one iteration reflects the first of them
\* alone and scales the velocity once, and the pass leaves in `after` every
\* violated axis reflected with its velocity negated, the others as they
\* were, and the velocity scaled k times
ReflectedPerAxis(ode, before, after, i) ==
    LET p == Point3(before.y, i)
        v == Point3(before.y, i + SPACE_DIM)
        q == Point3(after.y, i)
        u == Point3(after.y, i + SPACE_DIM)
        axes == ViolatedAxes(p)
        first == CHOOSE a \in axes : \A b \in axes : a <= b
        once == JellyODE_collide(ode, p, v)
    IN  (axes # {} /\ \A a \in axes : JustOutside(p[a])) =>
            /\ once.collision
            /\ once.position = [p EXCEPT ![first] = 2 * ViolatedWall(p[first]) - p[first]]
            /\ once.velocity = Mul3([v EXCEPT ![first] = -v[first]], ode.elasticity_coefficient)
            /\ q = [a \in 1..3 |-> IF a \in axes THEN 2 * ViolatedWall(p[a]) - p[a] ELSE p[a]]
            /\ \A a \in 1..3 : InRoom(q[a])
            /\ u = ScaledTimes([a \in 1..3 |-> IF a \in axes THEN -v[a] ELSE v[a]],
                               ode.elasticity_coefficient, Cardinality(axes))

\* C28: when a point is outside the room on k axes at once, each by less
\* than 2 * ROOM_HALF_SIZE, apply_collisions reflects one axis an iteration,
\* x before y before z, and multiplies all three velocity components by
\* elasticity_coefficient once for each reflected axis: after the pass every
\* violated axis is reflected and its velocity negated, and the velocity has
\* been scaled by elasticity_coefficient^k
C28_OneAxisPerIteration ==
    (fn_name = "apply_collisions" /\ fn_done) =>
        \A i \in CollidePoints \cup {96} : ReflectedPerAxis(fn_ode, fn_in, fn_out, i)

\* a moving point beyond three walls at once was reflected on all three
\* axes and slowed down by 0.1 three times
C28_Witness ==
    /\ fn_name = "apply_collisions" /\ fn_done
    /\ fn_ode.elasticity_coefficient = SCALE \div 10
    /\ Point3(fn_in.y, 63) = <<14999, -5001, -5001>>
    /\ Point3(fn_in.y, 63 + SPACE_DIM) = <<-Fx(3), Fx(4), 5500>>
    /\ Point3(fn_out.y, 63) = <<-4999, -4999, -4999>>
    /\ Point3(fn_out.y, 63 + SPACE_DIM) = <<3, -4, -5>>

\* ------------------------------------------------------------------------
\* Properties of the presenters (SpecPresenter)
\* ------------------------------------------------------------------------

\* the step size and the simulated time added by the update that ran last
UpdateH == upd_entry.sim.solver.delta

UpdateElapsed == Mul(Duration_as_secs_f64(upd_entry.delta), upd_entry.sim.simulation_speed)

\* what holds of an update(delta) once it has returned
UpdateReturned ==
    /\ UpdateH > 0
    /\ sim.exact_t = upd_entry.sim.exact_t + UpdateElapsed
    /\ sim.state.t >= sim.exact_t
    /\ upd_steps >= 1 => sim.state.t - UpdateH < sim.exact_t
    /\ (UpdateElapsed = 0 /\ upd_entry.sim.state.t >= upd_entry.sim.exact_t) => upd_steps = 0

\* C5: in both presenters update(delta) adds delta * simulation_speed to
\* exact_t and its loop terminates for every step size h > 0; when it has
\* returned state.t >= exact_t, state.t - h < exact_t if a step ran, and no
\* step ran if nothing was added while state.t >= exact_t held
C5_UpdateCatchesUp ==
    /\ []((pc = "idle" /\ frames > 0) => UpdateReturned)
    /\ (pc = "loop" ~> pc = "idle")

\* an update that took several steps has returned
C5_Witness == pc = "idle" /\ upd_steps >= 2 /\ UpdateElapsed > UpdateH

\* the one update(delta) call of the same total frame time, made on the
\* presenter as the last show_side_ui left it
OneFrame ==
    IF presenter = "jelly" THEN Simulation_update(since.sim, since.total)
    ELSE SpinningTop_update(since.sim, since.total)

\* C6: while the step size, the speed and the ODE are left alone, the state
\* after a sequence of update(delta) calls, and the number of steps they
\* took, are those of one update call with the sum of the deltas
C6_FrameTimingIndependent ==
    (pc = "idle" /\ presenter # "none") =>
        /\ sim = OneFrame
        /\ (steps - since.steps) * sim.solver.delta = OneFrame.state.t - since.sim.state.t

\* two frames, both with time in them, that took a step between them
C6_Witness ==
    /\ pc = "idle" /\ frames = 2 /\ steps > since.steps
    /\ upd_entry.delta > 0 /\ since.total > upd_entry.delta

\* C7 as claimed: the state fed to step N + 1 is the accepted output of
\* step N
C7_StepsChained == steps >= 2 => last_step.fed = last_step.prev_accepted

\* C7: the state fed to step N + 1 has the time and the positions of the
\* accepted output of step N; it is that output in the spinning top, within
\* one update, and whenever "Apply random disruption" was not pressed between
\* the two steps
C7_StepsChainedButForDisruption ==
    steps >= 2 =>
        /\ last_step.fed.t = last_step.prev_accepted.t
        /\ \A i \in DOMAIN last_step.fed.y :
                (presenter = "top" \/ i < SPACE_DIM) =>
                    last_step.fed.y[i] = last_step.prev_accepted.y[i]
        /\ (last_step.inner \/ ~last_step.disrupted) =>
                last_step.fed = last_step.prev_accepted

\* a step of the jelly fed with velocities that the step before did not
\* leave
C7_Witness ==
    /\ presenter = "jelly" /\ steps >= 2 /\ last_step.disrupted
    /\ last_step.fed # last_step.prev_accepted

\* reflections that bring coordinate c into the room
NeededReflections(c) ==
    IF InRoom(c) THEN 0 ELSE ((Abs(c) - ROOM_HALF_SIZE - 1) \div (2 * ROOM_HALF_SIZE)) + 1

\* c after k reflections, each at the wall it lies beyond
Reflected(c, k) ==
    (IF k % 2 = 0 THEN 1 ELSE -1) * (c - Sgn(c) * 2 * ROOM_HALF_SIZE * k)

\* the position the collision pass leaves a point at: the reflections go
\* to x first, then to y, then to z, MAX_COLLISIONS of them at most
CollidedPosition(p) ==
    LET kx == Min(NeededReflections(p[1]), MAX_COLLISIONS)
        ky == Min(NeededReflections(p[2]), MAX_COLLISIONS - kx)
        kz == Min(NeededReflections(p[3]), MAX_COLLISIONS - kx - ky)
    IN  <<Reflected(p[1], kx), Reflected(p[2], ky), Reflected(p[3], kz)>>

TotalReflections(p) ==
    NeededReflections(p[1]) + NeededReflections(p[2]) + NeededReflections(p[3])

\* C9: every state the jelly accepts is the collision pass applied to what
\* the integrator returned; the pass reflects each point at most
\* MAX_COLLISIONS times, and a point that needs no more than that over its
\* three axes ends inside the room
C9_AcceptedInRoom ==
    (presenter = "jelly" /\ steps >= 1) =>
        /\ accepted = JellyODE_apply_collisions(last_step.ode, raw)
        /\ \A p \in 0..(POINT_COUNT - 1) :
            /\ Point3(accepted.y, 3 * p) = CollidedPosition(Point3(raw.y, 3 * p))
            /\ TotalReflections(Point3(raw.y, 3 * p)) <= MAX_COLLISIONS =>
                    \A c \in 0..2 : InRoom(accepted.y[3 * p + c])

\* the integrator left a point where it takes many reflections, on every
\* axis, to bring it back, and the accepted state has it inside the room
C9_Witness ==
    /\ presenter = "jelly" /\ steps >= 1
    /\ \E p \in 0..(POINT_COUNT - 1) :
        /\ \A c \in 1..3 : NeededReflections(Point3(raw.y, 3 * p)[c]) > 1
        /\ TotalReflections(Point3(raw.y, 3 * p)) <= MAX_COLLISIONS
        /\ \A c \in 0..2 : InRoom(accepted.y[3 * p + c])

\* ------------------------------------------------------------------------
\* Properties of JellyODE::derivative (SpecDerivative)
\* ------------------------------------------------------------------------

\* C10: JellyODE::derivative returns ODE_DIM entries: the first SPACE_DIM are
\* the velocity entries of the input, and entries
\* SPACE_DIM + (u * 16 + v * 4 + w) * 3 + c are the components c of
\* force(u, v, w) / point_mass, for every lattice point (u, v, w)
C10_DerivativePacking ==
    (fn_name = "derivative" /\ fn_done) =>
        /\ DOMAIN fn_out = 0..(ODE_DIM - 1)
        /\ \A i \in 0..(SPACE_DIM - 1) : fn_out[i] = fn_in.y[SPACE_DIM + i]
        /\ \A u \in 0..3, v \in 0..3, w \in 0..3 :
            \E force \in {JellyODE_force(fn_ode, ControlFrameTransform_compose(fn_ode.control_frame),
                                         fn_in, u, v, w)} :
                \A c \in 0..2 :
                    fn_out[SPACE_DIM + (u * 16 + v * 4 + w) * 3 + c]
                        = Div(force[c + 1], fn_ode.point_mass)

\* the derivative of a state with a moving point pulled by its springs, of
\* a jelly with light points
C10_Witness ==
    /\ fn_name = "derivative" /\ fn_done
    /\ fn_ode.point_mass = HALF
    /\ Point3(fn_in.y, 63) = <<-Fx(1), Fx(2), HALF>>
    /\ Point3(fn_out, 63) = <<-Fx(3), Fx(4), 5500>>
    /\ \A c \in 0..2 : fn_out[SPACE_DIM + 63 + c] # 0

\* ------------------------------------------------------------------------
\* Properties of the forces of the jelly (SpecDerivative)
\* ------------------------------------------------------------------------

\* the conjugate of the quaternion q = <<w, i, j, k>>
Conjugate(q) == <<q[1], -q[2], -q[3], -q[4]>>

\* the vector v turned by the unit quaternion q: the vector part of
\* q * (0, v) * conjugate(q)
Rotated(q, v) ==
    LET vec(r) == <<r[2], r[3], r[4]>>
    IN  vec(QuatMul(QuatMul(q, <<0, v[1], v[2], v[3]>>), Conjugate(q)))

\* the vertex of the control frame the corner (u, v, w) is tied to: the
\* vertex of the cube [-1, 1]^3 on the low side of an axis for index 0 and
\* on the high side for index 3, turned by the normalised rotation of the
\* frame and then moved by its translation
CornerTarget(frame, u, v, w) ==
    LET vertex == <<IF u = 0 THEN -SCALE ELSE SCALE,
                    IF v = 0 THEN -SCALE ELSE SCALE,
                    IF w = 0 THEN -SCALE ELSE SCALE>>
    IN  Add3(Rotated(Normalize4(frame.rotation), vertex), frame.translation)

\* what the truncations of a spring force of constant k over a distance
\* dist can add up to: one unit in each component of the direction, scaled
\* by k and by the distance, and one unit for each product
SpringRounding(k, dist) == Mul(k + SCALE, dist + SCALE) \div SCALE + 2

Near3(a, b, eps) == \A c \in 1..3 : Abs(a[c] - b[c]) <= eps

\* C11: corner_force is zero at every lattice point that is not one of the
\* 8 corners; at a corner it is corner_spring_constant * (target - p), p the
\* position of the point and target the vertex of the control frame
\* (translation composed with the normalised rotation, applied to the
\* vertex of [-1, 1]^3 with -1 for index 0 and +1 for index 3)
C11_CornerForce ==
    (fn_name = "derivative" /\ fn_done) =>
        \A u \in 0..3, v \in 0..3, w \in 0..3 :
            \E force \in {JellyODE_corner_force(fn_ode,
                              ControlFrameTransform_compose(fn_ode.control_frame),
                              fn_in, u, v, w)},
               pull \in {Sub3(CornerTarget(fn_ode.control_frame, u, v, w),
                              Point3(fn_in.y, PointIdx(u, v, w)))} :
                IF {u, v, w} \subseteq {0, 3}
                THEN Near3(force, Mul3(pull, fn_ode.corner_spring_constant),
                           SpringRounding(fn_ode.corner_spring_constant, Norm(pull)))
                ELSE force = <<0, 0, 0>>

\* the corner (3, 3, 3) was moved away from its vertex of a control frame
\* that is moved and turned by a rotation that is not normalised, and is
\* pulled; the corner (0, 0, 0) rests on its vertex of no frame here
C11_Witness ==
    /\ fn_name = "derivative" /\ fn_done
    /\ fn_ode.control_frame.rotation = <<0, 0, Fx(3), Fx(4)>>
    /\ Point3(fn_in.y, PointIdx(3, 3, 3)) = <<Fx(3), -250, Fx(1)>>
    /\ \A c \in 1..3 :
         JellyODE_corner_force(fn_ode, ControlFrameTransform_compose(fn_ode.control_frame),
                               fn_in, 3, 3, 3)[c] # 0

\* the number of components of the offset d that are not zero
NonZero(d) == Cardinality({c \in 1..3 : d[c] # 0})

\* the offsets to the neighbours of (u, v, w) that a spring ties it to:
\* one or two components not zero, and the neighbour inside the lattice
SpringOffsets(u, v, w) ==
    {d \in {-1, 0, 1} \X {-1, 0, 1} \X {-1, 0, 1} :
        /\ NonZero(d) \in {1, 2}
        /\ u + d[1] \in 0..3 /\ v + d[2] \in 0..3 /\ w + d[3] \in 0..3}

\* the rest length of the spring along offset d
SpringRestLength(d) ==
    IF NonZero(d) = 1 THEN Div(Fx(2), Fx(3)) ELSE Mul(Div(Fx(2), Fx(3)), SQRT_2)

RECURSIVE SumOver(_, _)
\* the sum of f[d] over the offsets d in S
SumOver(f, S) ==
    IF S = {} THEN <<0, 0, 0>>
    ELSE LET d == CHOOSE x \in S : TRUE IN Add3(f[d], SumOver(f, S \ {d}))

\* C12: inner_force at (u, v, w) sums one spring per offset in {-1, 0, 1}^3
\* with exactly one or exactly two components not zero whose neighbour lies
\* inside [0, 3]^3; the rest length is 2/3 for one component not zero and
\* (2/3) * sqrt(2) for two; the point itself and the offsets with three
\* components not zero are left out; an interior point has 18 springs
C12_InnerForce ==
    (fn_name = "derivative" /\ fn_done) =>
        \A u \in 0..3, v \in 0..3, w \in 0..3 :
            \E ds \in {JellyODE_inner_offsets(u, v, w)} :
                /\ {ds[n] : n \in 1..Len(ds)} = SpringOffsets(u, v, w)
                /\ Len(ds) = Cardinality(SpringOffsets(u, v, w))
                /\ \A n \in 1..Len(ds) :
                       JellyODE_inner_rest_length(ds[n]) = SpringRestLength(ds[n])
                /\ ({u, v, w} \subseteq {1, 2}) => Len(ds) = 6 + 12
                /\ JellyODE_inner_force(fn_ode, fn_in, u, v, w)
                     = SumOver([d \in SpringOffsets(u, v, w) |->
                                   JellyODE_spring_force(
                                       Point3(fn_in.y, PointIdx(u + d[1], v + d[2], w + d[3])),
                                       Point3(fn_in.y, PointIdx(u, v, w)),
                                       SpringRestLength(d), fn_ode.inner_spring_constant)],
                               SpringOffsets(u, v, w))

\* the interior point (1, 1, 1) was moved and its 18 springs pull it, while
\* the corner (0, 0, 0) has the 3 + 3 springs to the neighbours it has
C12_Witness ==
    /\ fn_name = "derivative" /\ fn_done
    /\ Point3(fn_in.y, PointIdx(1, 1, 1)) = <<-Fx(1), Fx(2), HALF>>
    /\ Len(JellyODE_inner_offsets(1, 1, 1)) = 18
    /\ Len(JellyODE_inner_offsets(0, 0, 0)) = 6
    /\ \A c \in 1..3 : JellyODE_inner_force(fn_ode, fn_in, 1, 1, 1)[c] # 0

\* the anchors and the rest lengths spring_force is asked about: every
\* lattice point and every vertex of the control frame, and the rest
\* lengths of the corner springs and of the two kinds of inner spring
SpringAnchors ==
    {Point3(fn_in.y, 3 * p) : p \in 0..(POINT_COUNT - 1)}
        \cup {JellyODE_corner_point(ControlFrameTransform_compose(fn_ode.control_frame), u, v, w) :
                  u \in {0, 3}, v \in {0, 3}, w \in {0, 3}}

SpringLengths == {0, Div(Fx(2), Fx(3)), Mul(Div(Fx(2), Fx(3)), SQRT_2)}

\* force is k * diff / dist * (dist - length) up to the truncations, and
\* no component of it points against diff when the spring is stretched or
\* along diff when it is compressed
HookeanForce(force, diff, dist, length, k) ==
    \A c \in 1..3 :
        /\ Abs(force[c] - Div(Mul(Mul(k, diff[c]), dist - length), dist))
               <= SpringRounding(k, Abs(dist - length))
        /\ Sgn(force[c]) \in {0, Sgn(diff[c]) * Sgn(dist - length)}

\* C13: spring_force(p0, p1, L, k) is k * (p0 - p1) / |p0 - p1| * (|p0 - p1| - L),
\* the force on p1, toward p0 when the spring is longer than L and away
\* from p0 when it is shorter, and the zero vector when p0 and p1 coincide
C13_SpringForce ==
    (fn_name = "derivative" /\ fn_done) =>
        \A p_0 \in SpringAnchors, i \in CollidePoints, length \in SpringLengths,
           k \in {fn_ode.corner_spring_constant, fn_ode.inner_spring_constant} :
            \E p_1 \in {Point3(fn_in.y, i)} :
                \E force \in {JellyODE_spring_force(p_0, p_1, length, k)} :
                    IF p_0 = p_1 THEN force = <<0, 0, 0>>
                    ELSE HookeanForce(force, Sub3(p_0, p_1), Norm(Sub3(p_0, p_1)), length, k)

\* the corner (0, 0, 0) rests on its vertex of the control frame, so its
\* corner spring has no length, and the moved point (1, 1, 1) has a spring
\* that is stretched and one that is compressed, with forces along them
C13_Witness ==
    /\ fn_name = "derivative" /\ fn_done
    /\ JellyODE_corner_point(ControlFrameTransform_compose(fn_ode.control_frame), 0, 0, 0)
           = Point3(fn_in.y, 0)
    /\ \E p_1 \in {Point3(fn_in.y, PointIdx(1, 1, 1))} :
        /\ p_1 = <<0, 0, 0>>
        /\ \E a \in SpringAnchors, b \in SpringAnchors, length \in SpringLengths :
            /\ Norm(Sub3(a, p_1)) > length /\ Norm(Sub3(b, p_1)) < length /\ b # p_1
            /\ Dot3(JellyODE_spring_force(a, p_1, length, fn_ode.inner_spring_constant),
                    Sub3(a, p_1)) > 0
            /\ Dot3(JellyODE_spring_force(b, p_1, length, fn_ode.inner_spring_constant),
                    Sub3(b, p_1)) < 0

\* the lattice coordinates (u, v, w)
Lattice == (0..3) \X (0..3) \X (0..3)

\* the offsets of the inner springs of lattice point p, as inner_force
\* walks them
InnerSprings(p) ==
    LET ds == JellyODE_inner_offsets(p[1], p[2], p[3])
    IN  {ds[n] : n \in 1..Len(ds)}

\* the force the inner spring from p to p + d exerts on p
InnerSpringForceOn(ode, state, p, d) ==
    JellyODE_spring_force(
        Point3(state.y, PointIdx(p[1] + d[1], p[2] + d[2], p[3] + d[3])),
        Point3(state.y, PointIdx(p[1], p[2], p[3])),
        JellyODE_inner_rest_length(d), ode.inner_spring_constant)

\* C26: the inner-spring neighbour relation of the lattice is symmetric
\* with matching rest lengths: q = p + d is a neighbour of p with rest
\* length L iff p is a neighbour of q with rest length L; so the force q
\* exerts on p is the negative of the force p exerts on q, and the sum of
\* inner_force over all 64 points is the zero vector
C26_InnerForcesCancel ==
    (fn_name = "derivative" /\ fn_done) =>
        /\ \A p \in Lattice : \A d \in InnerSprings(p) :
             \E q \in {<<p[1] + d[1], p[2] + d[2], p[3] + d[3]>>},
                back \in {<<-d[1], -d[2], -d[3]>>} :
                /\ q \in Lattice
                /\ back \in InnerSprings(q)
                /\ JellyODE_inner_rest_length(back) = JellyODE_inner_rest_length(d)
                /\ InnerSpringForceOn(fn_ode, fn_in, q, back)
                     = Mul3(InnerSpringForceOn(fn_ode, fn_in, p, d), -Fx(1))
        /\ SumOver([u \in 0..3 |->
                SumOver([v \in 0..3 |->
                    SumOver([w \in 0..3 |-> JellyODE_inner_force(fn_ode, fn_in, u, v, w)],
                            0..3)], 0..3)], 0..3) = <<0, 0, 0>>

\* a lattice point moved off its place, pulled by its inner springs, and a
\* neighbour of it pulled the other way by the spring between them
C26_Witness ==
    /\ fn_name = "derivative" /\ fn_done
    /\ \E p \in {<<0, 0, 0>>, <<3, 3, 3>>} :
        /\ Point3(fn_in.y, PointIdx(p[1], p[2], p[3])) = <<Fx(3), -250, Fx(1)>>
        /\ JellyODE_inner_force(fn_ode, fn_in, p[1], p[2], p[3]) # <<0, 0, 0>>
        /\ \E d \in InnerSprings(p) :
            /\ NonZero(d) = 2
            /\ \A c \in 1..3 : InnerSpringForceOn(fn_ode, fn_in, p, d)[c] # 0
            /\ JellyODE_inner_force(fn_ode, fn_in, p[1] + d[1], p[2] + d[2], p[3] + d[3])
                 # <<0, 0, 0>>

\* ------------------------------------------------------------------------
\* Properties of the spinning top presenter (SpecPresenter)
\* ------------------------------------------------------------------------

\* the orientation entries y[3..7] of a state of the top
Orientation(state) == <<state.y[3], state.y[4], state.y[5], state.y[6]>>

\* q has norm 1, up to the truncation of its four components and of the
\* square root
UnitNorm(q) == Abs(Norm(q) - SCALE) <= 2

\* C14: in the spinning top presenter the orientation quaternion y[3..7] of
\* the current state has unit norm after every step_update: the output of
\* each RK4 step is renormalised before it is accepted, so the norm does not
\* drift over the steps
C14_OrientationUnit ==
    (presenter = "top" /\ steps >= 1) => UnitNorm(Orientation(sim.state))

\* the solver returned a state whose orientation is not of unit norm, and
\* the state accepted from it has the same direction and unit norm
C14_Witness ==
    /\ presenter = "top" /\ steps >= 2 /\ upd_steps >= 1
    /\ ~UnitNorm(Orientation(raw))
    /\ sim.state.t = raw.t
    /\ UnitNorm(Orientation(sim.state))

\* ------------------------------------------------------------------------
\* Properties of SpinningTopODE (SpecTop)
\* ------------------------------------------------------------------------

\* the angular velocity y[0..3] of a state of the top
AngularVelocity(state) == <<state.y[0], state.y[1], state.y[2]>>

\* 0.5 * q * (0, av): the Hamilton product with the angular velocity on the
\* right, halved
Kinematic(q, av) ==
    LET halved(r) == <<Mul(r[1], HALF), Mul(r[2], HALF), Mul(r[3], HALF), Mul(r[4], HALF)>>
    IN  halved(QuatMul(q, <<0, av[1], av[2], av[3]>>))

\* C15: SpinningTopODE::derivative does not renormalise the orientation:
\* the orientation part of its result is 0.5 * q * (0, w), the Hamilton
\* product with the angular velocity on the right, of the quaternion
\* q = (y[3], y[4], y[5], y[6]) of the state as given, also when |q| is not 1
C15_DerivativeOfGivenOrientation ==
    (fn_name = "top" /\ fn_done) =>
        <<fn_out[3], fn_out[4], fn_out[5], fn_out[6]>>
            = Kinematic(Orientation(fn_in), AngularVelocity(fn_in))

\* the torque of the weight on the top turned by q, in the frame of the
\* body: the centre 0.5 * side * (1, 1, 1) is turned by the rotation of q,
\* crossed with density * side^3 * gravity, and turned back; the rotation of
\* q is taken by the quaternion products r v r* with r = q / |q|
GravityTorque(ode, q, gravity) ==
    LET turn(r, v) == Rotated(r, v)
        torque(r, centre, weight) == turn(Conjugate(r), Cross3(turn(r, centre), weight))
    IN  torque(Normalize4(q),
               <<Mul(HALF, ode.side_length), Mul(HALF, ode.side_length), Mul(HALF, ode.side_length)>>,
               Mul3(gravity, Mul(ode.density, Mul(ode.side_length, Mul(ode.side_length, ode.side_length)))))

\* C16: the angular-velocity part of SpinningTopODE::derivative is
\* I^-1 * (torque(q) + (I * w) x w), where torque(q) is the torque of the
\* weight density * side^3 * gravity at the centre 0.5 * side * (1, 1, 1)
\* turned by q, brought back to the frame of the body, and gravity is the
\* configured vector when enable_gravity is set and zero (no torque) when
\* it is not
C16_AngularAcceleration ==
    (fn_name = "top" /\ fn_done) =>
        \E av \in {AngularVelocity(fn_in)},
           torque \in {GravityTorque(fn_ode, Orientation(fn_in),
                           IF fn_ode.enable_gravity THEN fn_ode.gravity ELSE <<0, 0, 0>>)} :
            /\ <<fn_out[0], fn_out[1], fn_out[2]>>
                 = Inertia_inverse_matrix_times(fn_ode.inertia,
                       Add3(torque, Cross3(MatVec3(fn_ode.inertia.matrix, av), av)))
            /\ ~fn_ode.enable_gravity => torque = <<0, 0, 0>>

\* the derivative was taken of a turned top under gravity, whose torque is
\* not zero, with an angular velocity that is not along an axis of inertia,
\* on an orientation that is not of unit norm
C16_Witness ==
    /\ fn_name = "top" /\ fn_done
    /\ fn_ode.enable_gravity
    /\ Orientation(fn_in) = <<0, 0, Fx(3), Fx(4)>>
    /\ AngularVelocity(fn_in) = <<Fx(1), -Fx(2), HALF>>
    /\ GravityTorque(fn_ode, Orientation(fn_in), fn_ode.gravity) # <<0, 0, 0>>
    /\ Cross3(MatVec3(fn_ode.inertia.matrix, AngularVelocity(fn_in)), AngularVelocity(fn_in))
           # <<0, 0, 0>>
    /\ \A c \in 0..2 : fn_out[c] # 0

\* the sum of the sizes of the components of v
Norm1(v) == Abs(v[1]) + Abs(v[2]) + Abs(v[3])

\* what the truncation of w' to the fixed-point scale (2 units a
\* component) leaves of I * w': 2 units times the largest row of I, and the
\* truncation of the three products
TensorRounding(inertia) ==
    (2 * Max(Max(Norm1(inertia.matrix[1]), Norm1(inertia.matrix[2])),
             Norm1(inertia.matrix[3]))) \div SCALE + 3

\* C24: with enable_gravity false the kinetic energy 0.5 * w^T * I * w is
\* conserved: the w' that SpinningTopODE::derivative returns satisfies
\* I * w' = (I * w) x w, and so w . (I * w') = 0, for every angular
\* velocity and every orientation
C24_EnergyConserved ==
    (fn_name = "top" /\ fn_done /\ ~fn_ode.enable_gravity) =>
        \E w \in {AngularVelocity(fn_in)}, eps \in {TensorRounding(fn_ode.inertia)} :
            \E Iw1 \in {MatVec3(fn_ode.inertia.matrix, <<fn_out[0], fn_out[1], fn_out[2]>>)} :
                /\ Near3(Iw1, Cross3(MatVec3(fn_ode.inertia.matrix, w), w), eps)
                /\ Abs(Dot3(w, Iw1)) <= (Norm1(w) * eps) \div SCALE + 3

\* the derivative of a top without gravity that turns about no axis of
\* inertia, so that its angular velocity changes
C24_Witness ==
    /\ fn_name = "top" /\ fn_done
    /\ ~fn_ode.enable_gravity
    /\ fn_ode.density = Fx(5) /\ fn_ode.side_length = Fx(2)
    /\ AngularVelocity(fn_in) = <<Fx(1), -Fx(2), HALF>>
    /\ \A c \in 0..2 : Abs(fn_out[c]) > 50

\* the tensor of a cube of the given density and side about its centre:
\* density * side^5 * [[2/3, -1/4, -1/4], [-1/4, 2/3, -1/4], [-1/4, -1/4, 2/3]]
CubeTensor(density, side_length) ==
    LET entry(m, i, j) == Mul(m, IF i = j THEN Div(Fx(2), Fx(3)) ELSE -(SCALE \div 4))
        tensor(m) == [i \in 1..3 |-> [j \in 1..3 |-> entry(m, i, j)]]
    IN  tensor(Mul(density, Mul(side_length, Mul(side_length,
                   Mul(side_length, Mul(side_length, side_length))))))

\* the vectors an inverse is tried on
Probes == {<<Fx(1), 0, 0>>, <<0, Fx(1), 0>>, <<0, 0, Fx(1)>>, <<Fx(1), -Fx(2), HALF>>}

\* the stored inverse of the inertia undoes its matrix, on the probes, up
\* to the truncations
Inverts(inertia) ==
    /\ inertia.inverse.some
    /\ \A v \in Probes :
         Near3(Inertia_inverse_matrix_times(inertia, MatVec3(inertia.matrix, v)), v, 5)

\* C17: after construction and after any sequence of set_density and
\* set_side_length calls that do not panic, the stored inertia tensor is
\* density * side_length^5 * [[2/3, -1/4, -1/4], [-1/4, 2/3, -1/4],
\* [-1/4, -1/4, 2/3]] for the current density and side length, and the
\* stored inverse is the inverse of that tensor
C17_InertiaCurrent ==
    (fn_name = "top" /\ ~fn_ode.inertia.panicked) =>
        /\ fn_ode.inertia.matrix = CubeTensor(fn_ode.density, fn_ode.side_length)
        /\ Inverts(fn_ode.inertia)

\* the density and the side length are both other than at construction
\* (the derivative was taken since, so the ODE did not panic)
C17_Witness ==
    /\ fn_name = "top" /\ fn_done
    /\ fn_ode.density = Fx(5) /\ fn_ode.side_length = Fx(2)
    /\ fn_ode.inertia.matrix[1][1] = Mul(Fx(160), Div(Fx(2), Fx(3)))
    /\ fn_ode.inertia.matrix[1][2] = -Fx(40)

\* C18: Inertia::new panics on a matrix that is not invertible and
\* otherwise stores the matrix with its inverse; SpinningTopODE::new,
\* set_density and set_side_length with density 0 or side length 0 panic and
\* leave no ODE with a singular tensor in use
C18_SingularPanics ==
    fn_name = "top" =>
        \E zero \in {<< <<0, 0, 0>>, <<0, 0, 0>>, <<0, 0, 0>> >>} :
            /\ (fn_ode.density = 0 \/ fn_ode.side_length = 0) => fn_ode.inertia.panicked
            /\ fn_ode.inertia.panicked =>
                   /\ ~fn_done
                   /\ CubeTensor(fn_ode.density, fn_ode.side_length) = zero
            /\ ~fn_ode.inertia.panicked =>
                   /\ fn_ode.inertia.matrix # zero
                   /\ Inverts(fn_ode.inertia)

\* set_side_length(0) was called on an ODE that had a density and a side
\* length and whose gravity had been switched off, and panicked: nothing
\* runs after it
C18_Witness ==
    /\ fn_name = "top"
    /\ fn_ode.density = Fx(10) /\ fn_ode.side_length = 0
    /\ ~fn_ode.enable_gravity
    /\ fn_ode.inertia.panicked
    /\ ~ENABLED NextTop

\* ------------------------------------------------------------------------
\* Properties of Quaternion (SpecQuat)
\* ------------------------------------------------------------------------

\* C19: after any sequence of slerp, lerp and normalize calls, on any
\* operands (the zero quaternion and quaternions not of unit norm
\* included), the resulting quaternion has norm 1 and is not NaN
C19_ResultUnit ==
    (fn_name = "quaternion" /\ fn_done) => (~fn_out.nan /\ UnitNorm(fn_out.c))

\* the dot product of two quaternions
Dot4(p, q) == Mul(p[1], q[1]) + Mul(p[2], q[2]) + Mul(p[3], q[3]) + Mul(p[4], q[4])

\* the call on record is a slerp between two unit quaternions
SlerpOfUnits ==
    /\ fn_name = "quaternion" /\ fn_done /\ fn_in.op = "slerp"
    /\ ~fn_in.self.nan /\ UnitNorm(fn_in.self.c)
    /\ ~fn_in.other.nan /\ UnitNorm(fn_in.other.c)

\* r lies at the angle t * theta of a and at (1 - t) * theta of b, for a
\* and b at the angle theta of each other, up to the truncations
OnArc(r, a, b, t, theta) ==
    /\ ~r.nan
    /\ Abs(Dot4(a.c, r.c) - Cos(Mul(t, theta))) <= 8
    /\ Abs(Dot4(b.c, r.c) - Cos(Mul(Fx(1) - t, theta))) <= 8

\* C20: slerp goes along the shortest arc: when dot(self, other) < 0 the
\* second operand is negated, and the angle in the sine weights is the
\* angle between self and the negated operand (the acos of the dot that is
\* not negative), so that slerp(a, b, 0) = a, slerp(a, b, 1) = +-b and the
\* angle from a grows as t times that angle; when the sine of the angle is
\* at most 10 * epsilon the result is the normalised lerp
C20_SlerpShortestArc ==
    SlerpOfUnits =>
        \E dot \in {Dot4(fn_in.self.c, fn_in.other.c)} :
            \E b \in {IF dot < 0 THEN Quaternion_neg(fn_in.other) ELSE fn_in.other},
               theta \in {Acos(Clamp(Abs(dot), 0, Fx(1)))} :
                IF Abs(Sin(theta)) <= TEN_EPSILON
                THEN fn_out = Quaternion_lerp(fn_in.self, b, fn_in.t)
                ELSE OnArc(fn_out, fn_in.self, b, fn_in.t, theta)

\* the call on record is a lerp between two quaternions that are not NaN
LerpOfNumbers ==
    /\ fn_name = "quaternion" /\ fn_done /\ fn_in.op = "lerp"
    /\ ~fn_in.self.nan /\ ~fn_in.other.nan

\* the component-wise blend self * (1 - t) + other * t is the zero vector
BlendIsZero(self, other, t) ==
    \A i \in 1..4 : self.c[i] * (Fx(1) - t) + other.c[i] * t = 0

\* t nudged by 10 * epsilon: down at t = 1, up elsewhere
Nudged(t) == IF t = Fx(1) THEN t - TEN_EPSILON ELSE t + TEN_EPSILON

\* the unit quaternion along the blend at t
BlendDirection(self, other, t) ==
    Quaternion_normalize(
        Quat([i \in 1..4 |-> self.c[i] * (Fx(1) - t) + other.c[i] * t]))

\* C21: lerp recovers from a degenerate interpolation: when the blend
\* self * (1 - t) + other * t is exactly zero it retries with t nudged by
\* 10 * epsilon (down only at t = 1), it returns after a bounded number of
\* retries (one) with a unit quaternion, along the blend at the t it ended
\* with; when both operands are zero it returns the identity (1, 0, 0, 0)
C21_LerpRecovers ==
    LerpOfNumbers =>
        IF Quaternion_is_zero(fn_in.self) /\ Quaternion_is_zero(fn_in.other)
        THEN fn_out = Quat(<<Fx(1), 0, 0, 0>>)
        ELSE /\ ~fn_out.nan /\ UnitNorm(fn_out.c)
             /\ IF BlendIsZero(fn_in.self, fn_in.other, fn_in.t)
                THEN /\ ~BlendIsZero(fn_in.self, fn_in.other, Nudged(fn_in.t))
                     /\ fn_out = BlendDirection(fn_in.self, fn_in.other, Nudged(fn_in.t))
                ELSE fn_out = BlendDirection(fn_in.self, fn_in.other, fn_in.t)

\* the lerp of a unit quaternion and the zero quaternion at t = 1, where
\* the blend is zero and the retry below 1 gives the first operand back,
\* after a lerp of two antipodal quaternions half way had given a unit one
C21_Witness ==
    /\ LerpOfNumbers /\ fn_in.calls = 2
    /\ fn_in.t = Fx(1) /\ Quaternion_is_zero(fn_in.other)
    /\ UnitNorm(fn_in.self.c)
    /\ BlendIsZero(fn_in.self, fn_in.other, fn_in.t)
    /\ fn_out = fn_in.self
    /\ fn_out.c \in {<<Fx(1), 0, 0, 0>>, <<-Fx(1), 0, 0, 0>>}

\* ------------------------------------------------------------------------
\* Properties of Angle (SpecAngle)
\* ------------------------------------------------------------------------

\* whole turns added to the value an angle is built from
Turns == -3..3

\* whole turns added to a value in degrees
DegreeTurns == -1..1

\* the angle the last call built, from its value moved by k turns
AngleOfTurned(k) ==
    IF fn_in.op = "from_deg"
    THEN Angle_from_deg(fn_in.value + k * Fx(360))
    ELSE Angle_from_rad(fn_in.value + k * (PI * 2))

\* C22: an Angle built by from_rad or from_deg, or by +, - and negation of
\* such angles, is the same angle when whole turns are added to the value
\* it is built from (and lies in [0, 2 * PI)); dist is symmetric,
\* a.dist(b) = b.dist(a), and its value lies in [0, PI]
C22_AngleWrapsDistSymmetric ==
    fn_name = "angle" =>
        /\ \A k \in IF fn_in.op = "from_deg" THEN DegreeTurns ELSE Turns :
             AngleOfTurned(k) = fn_out
        /\ 0 <= fn_out /\ fn_out < PI * 2
        /\ fn_in.op = "dist" =>
             /\ fn_out = Angle_dist(fn_in.other, fn_in.self)
             /\ 0 <= fn_out /\ fn_out <= PI

\* the distance of two angles more than half a turn apart going up from
\* the first, which is the way down, after a difference that wrapped
C22_Witness ==
    /\ fn_name = "angle" /\ fn_in.calls = 2 /\ fn_in.op = "dist"
    /\ fn_in.self < fn_in.other /\ fn_in.other - fn_in.self > PI
    /\ fn_out = fn_in.self + PI * 2 - fn_in.other
    /\ fn_out > 0

\* ------------------------------------------------------------------------
\* Properties of the stages of a step on the JellyODE (SpecStages)
\* ------------------------------------------------------------------------

\* C23: within one RungeKuttaIV::step on the JellyODE the four derivative
\* calls use the same control-frame transform: every call made so far read
\* the control frame once, all of them read the transform of the frame the
\* first one read, the frame is still that one while calls are to come, and
\* the State returned is the step of the solver with that one frame
C23_OneFrameInAStep ==
    (fn_name = "stages" /\ fn_in.stage >= 1) =>
        /\ Len(fn_in.reads) = fn_in.stage
        /\ \A n \in 1..fn_in.stage :
             /\ fn_in.frames[n] = fn_in.frames[1]
             /\ fn_in.reads[n] = ControlFrameTransform_compose(fn_in.frames[1])
        /\ ~fn_done => fn_ode.control_frame = fn_in.frames[1]
        /\ fn_done =>
             fn_out = RungeKuttaIV_step(
                         [delta |-> fn_in.delta,
                          ode |-> [fn_ode EXCEPT !.control_frame = fn_in.frames[1]]],
                         fn_in.state)

\* a step that returned after four derivative calls, made with a frame
\* the widgets had set before it, and dragged again after it
C23_Witness ==
    /\ fn_name = "stages" /\ fn_done /\ fn_in.stage = 4 /\ fn_in.ui = 2
    /\ fn_in.frames[4] # ControlFrameTransform_new
    /\ fn_in.frames[4].translation # <<0, 0, 0>>
    /\ fn_ode.control_frame # fn_in.frames[4]
    /\ fn_out.y # fn_in.state.y

\* ------------------------------------------------------------------------
\* Properties of the main loop (SpecMain)
\* ------------------------------------------------------------------------

\* C29: no presenter's update is called while paused is true or before a
\* frame has been rendered; the presenter updated is the one selected at
\* the time; a click in the selection box leaves paused true; and the delta
\* passed to update is the time since the render call just before, so time
\* spent paused is never integrated
C29_UpdatesWhenPlaying ==
    fn_name = "main" =>
        /\ \A n \in 1..Len(fn_out) :
             \E u \in {fn_out[n]} :
                /\ u.render >= 2
                /\ ~fn_in.entry[u.render].paused
                /\ u.presenter = fn_in.entry[u.render].current_presenter
                /\ u.delta = fn_in.renders[u.render] - fn_in.renders[u.render - 1]
        /\ \A r \in 2..Len(fn_in.renders) :
             ~fn_in.entry[r].paused => \E n \in 1..Len(fn_out) : fn_out[n].render = r
        /\ fn_in.click = "select" => fn_in.loop.paused

\* a presenter was selected, which paused; half a second later Play was
\* clicked, and the two frames after it updated that presenter by their
\* 16 ms each; in the last of them another presenter was selected
C29_Witness ==
    /\ fn_name = "main"
    /\ fn_in.renders = <<1, 501, 517, 533>>
    /\ fn_in.entry[2].current_presenter = 3
    /\ fn_in.entry[2].paused /\ ~fn_in.entry[3].paused /\ ~fn_in.entry[4].paused
    /\ fn_out = <<[presenter |-> 3, delta |-> 16, render |-> 3],
                  [presenter |-> 3, delta |-> 16, render |-> 4]>>
    /\ fn_in.click = "select" /\ fn_in.loop.current_presenter = 1 /\ fn_in.loop.paused

\* ------------------------------------------------------------------------
\* Properties of BFSMap (SpecBFS)
\* ------------------------------------------------------------------------

\* cells c and d are one move apart, with wraparound on both angles
NextTo(c, d) ==
    \/ d[1] = c[1] /\ (d[2] - c[2]) % ConfigSize \in {1, ConfigSize - 1}
    \/ d[2] = c[2] /\ (d[1] - c[1]) % ConfigSize \in {1, ConfigSize - 1}

RECURSIVE Spread(_, _, _, _)
\* the number of moves of the shortest path from the start to each cell
\* that moves to unobstructed neighbours reach: `moves` holds it for the
\* cells within k moves, `frontier` are those at k moves
Spread(moves, frontier, k, obstructed) ==
    IF frontier = {} THEN moves
    ELSE LET next == {d \in Cells \ obstructed :
                        d \notin DOMAIN moves /\ \E c \in frontier : NextTo(c, d)}
         IN  Spread(moves @@ [d \in next |-> k + 1], next, k + 1, obstructed)

\* the map from_obstructions returned is that of the shortest paths from
\* the start: a trove in the start cell and in the cells that moves through
\* unobstructed neighbours reach, its distance the length of the shortest
\* such path, its previous one move away and one move nearer the start
ShortestPathsMap ==
    IF ~fn_in.start.some THEN \A c \in Cells : ~fn_out[c].some
    ELSE \E start \in {CellOfPoint(fn_in.start.at)} :
        \E moves \in {Spread([c \in {start} |-> 0], {start}, 0, fn_ode.obstructed)} :
            \A c \in Cells :
                /\ fn_out[c].some <=> c \in DOMAIN moves
                /\ fn_out[c].some =>
                    /\ fn_out[c].distance = moves[c]
                    /\ fn_out[c].previous.some <=> c # start
                    /\ fn_out[c].previous.some =>
                        \E prev \in {fn_out[c].previous.at} :
                            /\ NextTo(prev, c)
                            /\ fn_out[prev].some
                            /\ fn_out[prev].distance + 1 = fn_out[c].distance

\* path_to found no missing predecessor: None for a target without a
\* trove, else the cells from the start to the target, as many hops as the
\* distance of the target
PathFollowsPrevious ==
    fn_in.target.some =>
        \E target \in {CellOfPoint(fn_in.target.at)}, found \in {fn_in.found} :
            /\ ~found.panicked /\ found.ended
            /\ found.some <=> fn_out[target].some
            /\ found.some =>
                /\ Len(found.path) = fn_out[target].distance + 1
                /\ found.path[1] = CellOfPoint(fn_in.start.at)
                /\ found.path[Len(found.path)] = target
                /\ \A n \in 1..Len(found.path) : fn_out[found.path[n]].some

\* C30: from_obstructions terminates, its loop running at most once for
\* the start and four times for each cell, and the map it returns holds a
\* trove for a cell exactly when the cell is the start cell or is reached
\* from it by unobstructed 4-neighbour moves with wraparound on both
\* angles; the distance is the length of the shortest such path; following
\* the previous pointers from a recorded cell reaches the start in that
\* many hops through recorded cells, and path_to never finds a predecessor
\* missing
C30_ShortestPaths ==
    fn_name = "bfs" =>
        /\ fn_in.visits <= 1 + 4 * Cardinality(Cells)
        /\ ~fn_done => (fn_in.queue = <<>> \/ fn_in.visits < 1 + 4 * Cardinality(Cells))
        /\ fn_done => (ShortestPathsMap /\ PathFollowsPrevious)

\* the map of the maze from a start given a turn out of range: a cell that
\* is not obstructed is not reached, and path_to went at least three hops
\* back to the start from another, one of them across the edge of the grid
C30_Witness ==
    /\ fn_name = "bfs" /\ fn_done
    /\ fn_in.start.some /\ fn_in.start.at[1] = 4 * SCALE + 1
    /\ CellOfPoint(fn_in.start.at) = <<0, 0>>
    /\ Cardinality(fn_ode.obstructed) = 9
    /\ \E c \in Cells \ fn_ode.obstructed : ~fn_out[c].some
    /\ fn_in.target.some /\ fn_in.found.some
    /\ Len(fn_in.found.path) >= 4
    /\ \E n \in 1..(Len(fn_in.found.path) - 1) :
         Abs(fn_in.found.path[n][1] - fn_in.found.path[n + 1][1])
            + Abs(fn_in.found.path[n][2] - fn_in.found.path[n + 1][2]) = ConfigSize - 1

====
